---- MODULE Spec2Model ----
(***************************************************************************)
(* The structured document rendering engine of vibecode-next-template:     *)
(* the text formatter (renderFormattedText), the document renderer         *)
(* (renderNode, RichText), the block components (ContentBlock,             *)
(* MediaBlockComponent, CallToActionBlock) and the layout compositor       *)
(* (renderBlock, RenderBlocks).                                            *)
(*                                                                         *)
(* The renderers are pure functions of their props.  Each is an operator   *)
(* computed the way the TypeScript computes it; the state machine calls    *)
(* them on inputs drawn from bounded sets and records the last call and    *)
(* the value it returned.  Two further specifications run the renderers   *)
(* step by step: SpecConcurrent interleaves RenderBlocks invocations block *)
(* by block, SpecWalk makes the renderNode calls of one document one at a  *)
(* time.                                                                   *)
(***************************************************************************)
EXTENDS Integers, Sequences, FiniteSets, TLC

VARIABLES
    call,       \* the last invocation: [op |-> name, ...its arguments]
    result,     \* the presentation tree that invocation returned
    NODE_ENV,   \* process.env.NODE_ENV of the build
    warned,     \* console.warn messages the last invocation emitted
    inflight,   \* the RenderBlocks invocations running side by side, by invocation
    stack,      \* the renderNode calls still to be made, as paths into the document
    visited     \* the paths of the nodes renderNode was invoked on, in call order

vars == <<call, result, NODE_ENV, warned, inflight, stack, visited>>

\* the variables of the step-by-step executions
stepwise == <<inflight, stack, visited>>

---------------------------------------------------------------------------
(* Bounds of the model *)

\* the largest format bitmask drawn for a text node
MaxMask == 33
\* the longest block sequence handed to RenderBlocks
MaxBlocks == 3
\* the longest list of children of a rich-text root
MaxKids == 2
\* the largest position at which a single node is rendered
MaxIndex == 1

---------------------------------------------------------------------------
(* JavaScript values.  Every value read from props is tagged with its      *)
(* typeof, so that undefined, null, strings, numbers, objects and arrays   *)
(* can meet in one comparison as they do in the source.                    *)

Undefined == [js |-> "undefined"]
Null == [js |-> "null"]
Str(s) == [js |-> "string", v |-> s]
Num(n) == [js |-> "number", v |-> n]
Bool(b) == [js |-> "boolean", v |-> b]
Obj(r) == [js |-> "object", v |-> r]
Arr(s) == [js |-> "array", v |-> s]

\* o.f and o?.f : the own property f of an object, undefined otherwise
Get(o, f) == IF o.js = "object" /\ f \in DOMAIN o.v THEN o.v[f] ELSE Undefined

\* ToBoolean: what `!x`, `x || y` and `x && y` test
Truthy(x) ==
    CASE x.js = "undefined" -> FALSE
      [] x.js = "null" -> FALSE
      [] x.js = "string" -> x.v # ""
      [] x.js = "number" -> x.v # 0
      [] x.js = "boolean" -> x.v
      [] OTHER -> TRUE

\* x || y
Or(x, y) == IF Truthy(x) THEN x ELSE y

\* a destructuring default: `name = dflt` applies to undefined only
Default(x, dflt) == IF x = Undefined THEN dflt ELSE x

\* the object without the property f: `const { f: _, ...props } = o`
Omit(o, f) == Obj([g \in (DOMAIN o.v) \ {f} |-> o.v[g]])

\* ToPropertyKey / template-literal ToString of a primitive, a built-in
\* function or a plain object (arrays are never converted by the renderers)
ToStr(x) ==
    CASE x.js = "string" -> x.v
      [] x.js = "number" -> ToString(x.v)
      [] x.js = "boolean" -> IF x.v THEN "true" ELSE "false"
      [] x.js = "function" -> "function " \o x.v \o "() { [native code] }"
      [] x.js = "object" -> "[object Object]"
      [] OTHER -> x.js

\* The members every object literal inherits from Object.prototype.
ObjectPrototypeFunctions ==
    {"constructor", "toString", "toLocaleString", "valueOf", "hasOwnProperty",
     "isPrototypeOf", "propertyIsEnumerable"}

\* table[key] on an object literal `table` (a Record<string, string>): the
\* own property if there is one, else the member inherited from
\* Object.prototype, else undefined.
Lookup(table, key) ==
    LET k == ToStr(key) IN
    IF k \in DOMAIN table THEN Str(table[k])
    ELSE IF k \in ObjectPrototypeFunctions
    THEN [js |-> "function", v |-> IF k = "constructor" THEN "Object" ELSE k]
    ELSE IF k = "__proto__" THEN Obj([constructor |-> Undefined])
    ELSE Undefined

\* a & b on non-negative 32-bit integers
RECURSIVE BitAnd(_, _)
BitAnd(a, b) ==
    IF a = 0 \/ b = 0 THEN 0
    ELSE ((a % 2) * (b % 2)) + 2 * BitAnd(a \div 2, b \div 2)

---------------------------------------------------------------------------
(* The presentation tree (React elements).                                 *)

NoKey == ""

Elem(el, key, cls, attrs, kids) ==
    [el |-> el, key |-> key, cls |-> cls, attrs |-> attrs, txt |-> "", kids |-> kids]

\* a string child
Text(s) ==
    [el |-> "#text", key |-> NoKey, cls |-> "", attrs |-> {}, txt |-> s, kids |-> <<>>]

\* null, and every child React renders as nothing (false, undefined, "")
Nothing ==
    [el |-> "#null", key |-> NoKey, cls |-> "", attrs |-> {}, txt |-> "", kids |-> <<>>]

\* bug variant: a fragment that shows up as a block wrapper
Fragment_wrapped(key, kids) == Elem("div", key, "", {}, kids)

\* <React.Fragment key={key}>...</React.Fragment>
Fragment(key, kids) == Elem("#fragment", key, "", {}, kids)

\* the TypeError a render function ends with instead of returning a tree
Raised ==
    [el |-> "#throw", key |-> NoKey, cls |-> "", attrs |-> {}, txt |-> "", kids |-> <<>>]

\* evaluating one of the children raised
AnyRaised(kids) == \E i \in 1..Len(kids) : kids[i] = Raised

\* bug variant: children.map without the optional chain
OptionalMap_unguarded(children) == IF children.js = "array" THEN "map" ELSE "throw"

\* children?.map(...): skipped for undefined and null, a map over an array,
\* and for every other value a TypeError (children.map is not a function)
OptionalMap(children) ==
    CASE children.js \in {"undefined", "null"} -> "skip"
      [] children.js = "array" -> "map"
      [] OTHER -> "throw"

\* <Component key={key} {...props} /> together with what the component renders
Component(name, key, rendered) == Elem(name, key, "", {}, <<rendered>>)

---------------------------------------------------------------------------
(* Text formatter, src/blocks/Content/Component.tsx                        *)

IS_BOLD == 1
IS_ITALIC == 2
IS_STRIKETHROUGH == 4
IS_UNDERLINE == 8
IS_CODE == 16

\* bug variant: the flags are applied in the reverse order, code first
renderFormattedText_reversed(text, format) ==
    IF ~Truthy(format) THEN Text(text.v)
    ELSE
      LET r0 == Text(text.v)
          r1 == IF BitAnd(format.v, IS_CODE) # 0
                THEN Elem("code", NoKey, "rounded bg-muted px-1 py-0.5 font-mono text-sm", {}, <<r0>>)
                ELSE r0
          r2 == IF BitAnd(format.v, IS_UNDERLINE) # 0 THEN Elem("u", NoKey, "", {}, <<r1>>) ELSE r1
          r3 == IF BitAnd(format.v, IS_STRIKETHROUGH) # 0 THEN Elem("s", NoKey, "", {}, <<r2>>) ELSE r2
          r4 == IF BitAnd(format.v, IS_ITALIC) # 0 THEN Elem("em", NoKey, "", {}, <<r3>>) ELSE r3
          r5 == IF BitAnd(format.v, IS_BOLD) # 0 THEN Elem("strong", NoKey, "", {}, <<r4>>) ELSE r4
      IN r5

\* bug variant: text without a format is wrapped in a span
renderFormattedText_spanned(text, format) ==
    IF ~Truthy(format) THEN Elem("span", NoKey, "", {}, <<Text(text.v)>>)
    ELSE
      LET r0 == Text(text.v)
          r1 == IF BitAnd(format.v, IS_BOLD) # 0 THEN Elem("strong", NoKey, "", {}, <<r0>>) ELSE r0
          r2 == IF BitAnd(format.v, IS_ITALIC) # 0 THEN Elem("em", NoKey, "", {}, <<r1>>) ELSE r1
          r3 == IF BitAnd(format.v, IS_STRIKETHROUGH) # 0 THEN Elem("s", NoKey, "", {}, <<r2>>) ELSE r2
          r4 == IF BitAnd(format.v, IS_UNDERLINE) # 0 THEN Elem("u", NoKey, "", {}, <<r3>>) ELSE r3
          r5 == IF BitAnd(format.v, IS_CODE) # 0
                THEN Elem("code", NoKey, "rounded bg-muted px-1 py-0.5 font-mono text-sm", {}, <<r4>>)
                ELSE r4
      IN r5

\* bug variant: bit 5 of the mask adds a wrapper of its own
renderFormattedText_bit5(text, format) ==
    IF ~Truthy(format) THEN Text(text.v)
    ELSE
      LET r0 == Text(text.v)
          r1 == IF BitAnd(format.v, IS_BOLD) # 0 THEN Elem("strong", NoKey, "", {}, <<r0>>) ELSE r0
          r2 == IF BitAnd(format.v, IS_ITALIC) # 0 THEN Elem("em", NoKey, "", {}, <<r1>>) ELSE r1
          r3 == IF BitAnd(format.v, IS_STRIKETHROUGH) # 0 THEN Elem("s", NoKey, "", {}, <<r2>>) ELSE r2
          r4 == IF BitAnd(format.v, IS_UNDERLINE) # 0 THEN Elem("u", NoKey, "", {}, <<r3>>) ELSE r3
          r5 == IF BitAnd(format.v, IS_CODE) # 0
                THEN Elem("code", NoKey, "rounded bg-muted px-1 py-0.5 font-mono text-sm", {}, <<r4>>)
                ELSE r4
          r6 == IF BitAnd(format.v, 2 * IS_CODE) # 0 THEN Elem("mark", NoKey, "", {}, <<r5>>) ELSE r5
      IN r6

renderFormattedText(text, format) ==
    IF ~Truthy(format) THEN Text(text.v)
    ELSE
      LET r0 == Text(text.v)
          r1 == IF BitAnd(format.v, IS_BOLD) # 0 THEN Elem("strong", NoKey, "", {}, <<r0>>) ELSE r0
          r2 == IF BitAnd(format.v, IS_ITALIC) # 0 THEN Elem("em", NoKey, "", {}, <<r1>>) ELSE r1
          r3 == IF BitAnd(format.v, IS_STRIKETHROUGH) # 0 THEN Elem("s", NoKey, "", {}, <<r2>>) ELSE r2
          r4 == IF BitAnd(format.v, IS_UNDERLINE) # 0 THEN Elem("u", NoKey, "", {}, <<r3>>) ELSE r3
          r5 == IF BitAnd(format.v, IS_CODE) # 0
                THEN Elem("code", NoKey, "rounded bg-muted px-1 py-0.5 font-mono text-sm", {}, <<r4>>)
                ELSE r4
      IN r5

---------------------------------------------------------------------------
(* Document renderer, src/blocks/Content/Component.tsx                     *)

headingClasses ==
    [h1 |-> "mb-4 text-4xl font-bold tracking-tight",
     h2 |-> "mb-3 text-3xl font-semibold tracking-tight",
     h3 |-> "mb-3 text-2xl font-semibold",
     h4 |-> "mb-2 text-xl font-semibold",
     h5 |-> "mb-2 text-lg font-medium",
     h6 |-> "mb-2 text-base font-medium"]

\* bug variant: the key is the kind alone
NodeKey_kindOnly(node, index) == ToStr(Get(node, "type"))

\* `${node.type}-${index}`
NodeKey(node, index) == ToStr(Get(node, "type")) \o "-" \o ToString(index)

\* bug variant: the numbered list is chosen by the value 'ordered'
ListTag_ordered(node) == IF Get(node, "listType") = Str("ordered") THEN "ol" ELSE "ul"

\* const ListTag = node.listType === 'number' ? 'ol' : 'ul'
ListTag(node) == IF Get(node, "listType") = Str("number") THEN "ol" ELSE "ul"

\* bug variant: the children are mapped last child first
RECURSIVE renderNode_reversed(_, _)
renderNode_reversed(node, index) ==
    LET key == NodeKey(node, index)
        type == Get(node, "type")
        children == Get(node, "children")
        mapped == IF children.js = "array"
                  THEN LET n == Len(children.v) IN
                       [i \in 1..n |-> renderNode_reversed(children.v[n + 1 - i], n - i)]
                  ELSE <<>>
        \* an element around {node.children?.map(...)}
        Mapped(element) ==
            IF OptionalMap(children) = "throw" \/ AnyRaised(mapped) THEN Raised ELSE element
    IN
    \* node.type of null or undefined
    IF node.js \in {"undefined", "null"} THEN Raised
    ELSE IF type = Str("text") /\ Get(node, "text") # Undefined
    THEN Fragment(key, <<renderFormattedText(Get(node, "text"), Get(node, "format"))>>)
    ELSE IF type = Str("paragraph")
    THEN Mapped(Elem("p", key, "mb-4 last:mb-0", {}, mapped))
    ELSE IF type = Str("heading")
    THEN LET HeadingTag == Or(Get(node, "tag"), Str("h2"))
         IN Mapped(Elem(ToStr(HeadingTag), key,
                 ToStr(Or(Lookup(headingClasses, HeadingTag), Str(headingClasses.h2))),
                 {}, mapped))
    ELSE IF type = Str("list")
    THEN LET listClass == IF Get(node, "listType") = Str("number")
                          THEN "mb-4 list-decimal pl-6" ELSE "mb-4 list-disc pl-6"
         IN Mapped(Elem(ListTag(node), key, listClass, {}, mapped))
    ELSE IF type = Str("listitem")
    THEN Mapped(Elem("li", key, "", {}, mapped))
    ELSE IF type = Str("quote")
    THEN Mapped(Elem("blockquote", key, "mb-4 border-l-4 border-muted-foreground/30 pl-4 italic", {}, mapped))
    ELSE IF type = Str("link")
    THEN Mapped(Elem("a", key, "text-primary underline underline-offset-4 hover:text-primary/80",
              {<<"href", "#">>}, mapped))
    ELSE IF type = Str("linebreak")
    THEN Elem("br", key, "", {}, <<>>)
    ELSE IF children.js = "array" /\ Len(children.v) > 0
    THEN (IF AnyRaised(mapped) THEN Raised ELSE Fragment(key, mapped))
    \* a non-empty string has a length and no map
    ELSE IF children.js = "string" /\ children.v # ""
    THEN Raised
    ELSE Nothing

RECURSIVE renderNode(_, _)
renderNode(node, index) ==
    LET key == NodeKey(node, index)
        type == Get(node, "type")
        children == Get(node, "children")
        \* node.children?.map((child, i) => renderNode(child, i))
        mapped == IF children.js = "array"
                  THEN [i \in 1..Len(children.v) |-> renderNode(children.v[i], i - 1)]
                  ELSE <<>>
        \* an element around {node.children?.map(...)}
        Mapped(element) ==
            IF OptionalMap(children) = "throw" \/ AnyRaised(mapped) THEN Raised ELSE element
    IN
    \* node.type of null or undefined
    IF node.js \in {"undefined", "null"} THEN Raised
    ELSE IF type = Str("text") /\ Get(node, "text") # Undefined
    THEN Fragment(key, <<renderFormattedText(Get(node, "text"), Get(node, "format"))>>)
    ELSE IF type = Str("paragraph")
    THEN Mapped(Elem("p", key, "mb-4 last:mb-0", {}, mapped))
    ELSE IF type = Str("heading")
    THEN LET HeadingTag == Or(Get(node, "tag"), Str("h2"))
         IN Mapped(Elem(ToStr(HeadingTag), key,
                 ToStr(Or(Lookup(headingClasses, HeadingTag), Str(headingClasses.h2))),
                 {}, mapped))
    ELSE IF type = Str("list")
    THEN LET listClass == IF Get(node, "listType") = Str("number")
                          THEN "mb-4 list-decimal pl-6" ELSE "mb-4 list-disc pl-6"
         IN Mapped(Elem(ListTag(node), key, listClass, {}, mapped))
    ELSE IF type = Str("listitem")
    THEN Mapped(Elem("li", key, "", {}, mapped))
    ELSE IF type = Str("quote")
    THEN Mapped(Elem("blockquote", key, "mb-4 border-l-4 border-muted-foreground/30 pl-4 italic", {}, mapped))
    ELSE IF type = Str("link")
    THEN Mapped(Elem("a", key, "text-primary underline underline-offset-4 hover:text-primary/80",
              {<<"href", "#">>}, mapped))
    ELSE IF type = Str("linebreak")
    THEN Elem("br", key, "", {}, <<>>)
    ELSE IF children.js = "array" /\ Len(children.v) > 0
    THEN (IF AnyRaised(mapped) THEN Raised ELSE Fragment(key, mapped))
    \* a non-empty string has a length and no map
    ELSE IF children.js = "string" /\ children.v # ""
    THEN Raised
    ELSE Nothing

RichText(content) ==
    LET children == Get(Get(content, "root"), "children") IN
    IF ~Truthy(children) THEN Nothing
    \* content.root.children.map on a value that is no array
    ELSE IF children.js # "array" THEN Raised
    ELSE IF AnyRaised([i \in 1..Len(children.v) |-> renderNode(children.v[i], i - 1)]) THEN Raised
    ELSE Elem("div", NoKey, "prose", {},
              [i \in 1..Len(children.v) |-> renderNode(children.v[i], i - 1)])

---------------------------------------------------------------------------
(* The shared RichText component, src/unnamed/part_001 lines 1-227         *)

RECURSIVE renderNode_Shared(_, _)
renderNode_Shared(node, index) ==
    LET key == NodeKey(node, index)
        type == Get(node, "type")
        children == Get(node, "children")
        mapped == IF children.js = "array"
                  THEN [i \in 1..Len(children.v) |-> renderNode_Shared(children.v[i], i - 1)]
                  ELSE <<>>
        \* an element around {node.children?.map(...)}
        Mapped(element) ==
            IF OptionalMap(children) = "throw" \/ AnyRaised(mapped) THEN Raised ELSE element
    IN
    \* node.type of null or undefined
    IF node.js \in {"undefined", "null"} THEN Raised
    ELSE IF type = Str("text") /\ Get(node, "text") # Undefined
    THEN Fragment(key, <<renderFormattedText(Get(node, "text"), Get(node, "format"))>>)
    ELSE IF type = Str("paragraph")
    THEN Mapped(Elem("p", key, "mb-4 last:mb-0", {}, mapped))
    ELSE IF type = Str("heading")
    THEN LET HeadingTag == Or(Get(node, "tag"), Str("h2"))
         IN Mapped(Elem(ToStr(HeadingTag), key,
                 ToStr(Or(Lookup(headingClasses, HeadingTag), Str(headingClasses.h2))),
                 {}, mapped))
    ELSE IF type = Str("list")
    THEN LET listClass == IF Get(node, "listType") = Str("number")
                          THEN "mb-4 list-decimal pl-6" ELSE "mb-4 list-disc pl-6"
         IN Mapped(Elem(ListTag(node), key, listClass, {}, mapped))
    ELSE IF type = Str("listitem")
    THEN Mapped(Elem("li", key, "", {}, mapped))
    ELSE IF type = Str("quote")
    THEN Mapped(Elem("blockquote", key, "mb-4 border-l-4 border-muted-foreground/30 pl-4 italic", {}, mapped))
    ELSE IF type = Str("link")
    THEN LET url == Or(Or(Get(Get(node, "fields"), "url"), Get(node, "url")), Str("#"))
             newTab == Or(Get(Get(node, "fields"), "newTab"), Get(node, "newTab"))
         IN Mapped(Elem("a", key, "text-primary underline underline-offset-4 hover:text-primary/80",
                 {<<"href", ToStr(url)>>}
                 \cup (IF Truthy(newTab)
                       THEN {<<"target", "_blank">>, <<"rel", "noopener noreferrer">>}
                       ELSE {}),
                 mapped))
    ELSE IF type = Str("linebreak")
    THEN Elem("br", key, "", {}, <<>>)
    ELSE IF children.js = "array" /\ Len(children.v) > 0
    THEN (IF AnyRaised(mapped) THEN Raised ELSE Fragment(key, mapped))
    \* a non-empty string has a length and no map
    ELSE IF children.js = "string" /\ children.v # ""
    THEN Raised
    ELSE Nothing

RichText_Shared(content, className) ==
    LET children == Get(Get(content, "root"), "children") IN
    IF ~Truthy(children) THEN Nothing
    \* content.root.children.map on a value that is no array
    ELSE IF children.js # "array" THEN Raised
    ELSE IF AnyRaised([i \in 1..Len(children.v) |-> renderNode_Shared(children.v[i], i - 1)]) THEN Raised
    ELSE Elem("div", NoKey,
              "prose prose-slate max-w-none dark:prose-invert "
                  \o ToStr(Default(className, Str(""))),
              {},
              [i \in 1..Len(children.v) |-> renderNode_Shared(children.v[i], i - 1)])

---------------------------------------------------------------------------
(* Content block, src/blocks/Content/Component.tsx                         *)

gridClasses ==
    ("1" :> "grid grid-cols-1")
    @@ ("2" :> "grid grid-cols-1 gap-8 md:grid-cols-2")
    @@ ("3" :> "grid grid-cols-1 gap-8 md:grid-cols-2 lg:grid-cols-3")

\* <div className="content-column"><RichText content={content} /></div>
ContentColumn(content) == Elem("div", NoKey, "content-column", {}, <<RichText(content)>>)

\* bug variant: column three is rendered whenever column two is
ContentBlock_threeWithTwo(props) ==
    LET columns == Get(props, "columns")
        gridClass == ToStr(Or(Lookup(gridClasses, columns), Str(gridClasses["1"])))
        two == columns = Str("2") \/ columns = Str("3")
    IN
    Elem("section", NoKey, "py-12", {},
      <<Elem("div", NoKey, "container mx-auto px-4", {},
          <<Elem("div", NoKey, gridClass, {},
              <<ContentColumn(Get(props, "columnOne")),
                IF two THEN ContentColumn(Get(props, "columnTwo")) ELSE Nothing,
                IF two THEN ContentColumn(Get(props, "columnThree")) ELSE Nothing>>)>>)>>)

\* bug variant: a column without content gets no slot
ContentBlock_collapsing(props) ==
    LET columns == Get(props, "columns")
        gridClass == ToStr(Or(Lookup(gridClasses, columns), Str(gridClasses["1"])))
        Slot(c) == IF Truthy(c) THEN ContentColumn(c) ELSE Nothing
    IN
    Elem("section", NoKey, "py-12", {},
      <<Elem("div", NoKey, "container mx-auto px-4", {},
          <<Elem("div", NoKey, gridClass, {},
              <<Slot(Get(props, "columnOne")),
                IF columns = Str("2") \/ columns = Str("3")
                THEN Slot(Get(props, "columnTwo")) ELSE Nothing,
                IF columns = Str("3")
                THEN Slot(Get(props, "columnThree")) ELSE Nothing>>)>>)>>)

ContentBlock(props) ==
    LET columns == Get(props, "columns")
        gridClass == ToStr(Or(Lookup(gridClasses, columns), Str(gridClasses["1"])))
    IN
    Elem("section", NoKey, "py-12", {},
      <<Elem("div", NoKey, "container mx-auto px-4", {},
          <<Elem("div", NoKey, gridClass, {},
              <<ContentColumn(Get(props, "columnOne")),
                IF columns = Str("2") \/ columns = Str("3")
                THEN ContentColumn(Get(props, "columnTwo")) ELSE Nothing,
                IF columns = Str("3")
                THEN ContentColumn(Get(props, "columnThree")) ELSE Nothing>>)>>)>>)

---------------------------------------------------------------------------
(* Media block, src/blocks/CallToAction/config.ts                          *)

alignmentClasses == [left |-> "mr-auto", center |-> "mx-auto", right |-> "ml-auto"]
textAlignClasses == [left |-> "text-left", center |-> "text-center", right |-> "text-right"]

\* the tree MediaBlockComponent returns once the media has a URL
MediaFigure(mediaData, caption, position, alt) ==
    LET alignmentClass == Or(Lookup(alignmentClasses, position), Str(alignmentClasses.center))
        textAlignClass == Or(Lookup(textAlignClasses, position), Str(textAlignClasses.center))
        width == Or(Get(mediaData, "width"), Num(1200))
        height == Or(Get(mediaData, "height"), Num(800))
    IN
    Elem("section", NoKey, "py-12", {},
      <<Elem("div", NoKey, "container mx-auto px-4", {},
          <<Elem("figure", NoKey, "max-w-4xl " \o ToStr(alignmentClass), {},
              <<Elem("div", NoKey, "relative overflow-hidden rounded-lg", {},
                  <<Elem("Image", NoKey, "h-auto w-full object-cover",
                         {<<"src", ToStr(Get(mediaData, "url"))>>,
                          <<"alt", ToStr(alt)>>,
                          <<"width", ToStr(width)>>,
                          <<"height", ToStr(height)>>,
                          <<"sizes", "(max-width: 768px) 100vw, (max-width: 1200px) 80vw, 1024px">>},
                         <<>>)>>),
                IF Truthy(caption)
                THEN Elem("figcaption", NoKey,
                          "mt-3 text-sm text-muted-foreground " \o ToStr(textAlignClass), {},
                          <<Text(ToStr(caption))>>)
                ELSE Nothing>>)>>)>>)

\* bug variant: the figure is returned whether or not the media has a URL
MediaBlockComponent_unguarded(props) ==
    LET media == Get(props, "media")
        mediaData == IF media.js = "string" THEN Null ELSE media
    IN MediaFigure(mediaData, Get(props, "caption"),
                   Default(Get(props, "position"), Str("center")),
                   Or(Or(Get(mediaData, "alt"), Get(mediaData, "filename")), Str("Image")))

\* bug variant: the filename is preferred to the explicit alt text
MediaBlockComponent_filenameFirst(props) ==
    LET media == Get(props, "media")
        mediaData == IF media.js = "string" THEN Null ELSE media
    IN IF ~Truthy(Get(mediaData, "url")) THEN Nothing
       ELSE MediaFigure(mediaData, Get(props, "caption"),
                        Default(Get(props, "position"), Str("center")),
                        Or(Or(Get(mediaData, "filename"), Get(mediaData, "alt")), Str("Image")))

MediaBlockComponent(props) ==
    LET media == Get(props, "media")
        mediaData == IF media.js = "string" THEN Null ELSE media
    IN IF ~Truthy(Get(mediaData, "url")) THEN Nothing
       ELSE MediaFigure(mediaData, Get(props, "caption"),
                        Default(Get(props, "position"), Str("center")),
                        Or(Or(Get(mediaData, "alt"), Get(mediaData, "filename")), Str("Image")))

---------------------------------------------------------------------------
(* Call-to-action block with its own copy of the renderer,                 *)
(* src/unnamed/part_011 lines 1-248                                        *)

renderFormattedText_CallToAction(text, format) ==
    IF ~Truthy(format) THEN Text(text.v)
    ELSE
      LET r0 == Text(text.v)
          r1 == IF BitAnd(format.v, IS_BOLD) # 0 THEN Elem("strong", NoKey, "", {}, <<r0>>) ELSE r0
          r2 == IF BitAnd(format.v, IS_ITALIC) # 0 THEN Elem("em", NoKey, "", {}, <<r1>>) ELSE r1
          r3 == IF BitAnd(format.v, IS_STRIKETHROUGH) # 0 THEN Elem("s", NoKey, "", {}, <<r2>>) ELSE r2
          r4 == IF BitAnd(format.v, IS_UNDERLINE) # 0 THEN Elem("u", NoKey, "", {}, <<r3>>) ELSE r3
          r5 == IF BitAnd(format.v, IS_CODE) # 0
                THEN Elem("code", NoKey, "rounded bg-background/50 px-1 py-0.5 font-mono text-sm", {}, <<r4>>)
                ELSE r4
      IN r5

RECURSIVE renderNode_CallToAction(_, _)
renderNode_CallToAction(node, index) ==
    LET key == NodeKey(node, index)
        type == Get(node, "type")
        children == Get(node, "children")
        mapped == IF children.js = "array"
                  THEN [i \in 1..Len(children.v) |->
                            renderNode_CallToAction(children.v[i], i - 1)]
                  ELSE <<>>
        \* an element around {node.children?.map(...)}
        Mapped(element) ==
            IF OptionalMap(children) = "throw" \/ AnyRaised(mapped) THEN Raised ELSE element
    IN
    \* node.type of null or undefined
    IF node.js \in {"undefined", "null"} THEN Raised
    ELSE IF type = Str("text") /\ Get(node, "text") # Undefined
    THEN Fragment(key, <<renderFormattedText_CallToAction(Get(node, "text"), Get(node, "format"))>>)
    ELSE IF type = Str("paragraph")
    THEN Mapped(Elem("p", key, "mb-4 last:mb-0", {}, mapped))
    ELSE IF type = Str("heading")
    THEN Mapped(Elem(ToStr(Or(Get(node, "tag"), Str("h2"))), key, "mb-3 font-semibold", {}, mapped))
    ELSE IF type = Str("list")
    THEN LET listClass == IF Get(node, "listType") = Str("number")
                          THEN "mb-4 list-decimal pl-6" ELSE "mb-4 list-disc pl-6"
         IN Mapped(Elem(ListTag(node), key, listClass, {}, mapped))
    ELSE IF type = Str("listitem")
    THEN Mapped(Elem("li", key, "", {}, mapped))
    ELSE IF type = Str("linebreak")
    THEN Elem("br", key, "", {}, <<>>)
    ELSE IF children.js = "array" /\ Len(children.v) > 0
    THEN (IF AnyRaised(mapped) THEN Raised ELSE Fragment(key, mapped))
    \* a non-empty string has a length and no map
    ELSE IF children.js = "string" /\ children.v # ""
    THEN Raised
    ELSE Nothing

RichText_CallToAction(content) ==
    LET children == Get(Get(content, "root"), "children") IN
    IF ~Truthy(children) THEN Nothing
    \* content.root.children.map on a value that is no array
    ELSE IF children.js # "array" THEN Raised
    ELSE IF AnyRaised([i \in 1..Len(children.v) |-> renderNode_CallToAction(children.v[i], i - 1)]) THEN Raised
    ELSE Elem("div", NoKey, "prose", {},
              [i \in 1..Len(children.v) |-> renderNode_CallToAction(children.v[i], i - 1)])

backgroundClasses ==
    [default |-> "bg-background",
     muted |-> "bg-muted",
     primary |-> "bg-primary text-primary-foreground",
     secondary |-> "bg-secondary text-secondary-foreground",
     accent |-> "bg-accent text-accent-foreground"]

\* bug variant: every button is keyed by its index
CTAButtonElem_indexKey(button, index) ==
    Elem("Button", ToString(index), "",
         {<<"variant", ToStr(Or(Get(button, "variant"), Str("default")))>>,
          <<"size", "lg">>, <<"asChild", "true">>},
         <<Elem("Link", NoKey, "", {<<"href", ToStr(Get(button, "link"))>>},
                <<Text(ToStr(Get(button, "label")))>>)>>)

\* <Button key={button.id || index} ...><Link href={button.link}>{button.label}</Link></Button>
CTAButtonElem(button, index) ==
    Elem("Button", ToStr(Or(Get(button, "id"), Num(index))), "",
         {<<"variant", ToStr(Or(Get(button, "variant"), Str("default")))>>,
          <<"size", "lg">>, <<"asChild", "true">>},
         <<Elem("Link", NoKey, "", {<<"href", ToStr(Get(button, "link"))>>},
                <<Text(ToStr(Get(button, "label")))>>)>>)

\* bug variant: the rich-text wrapper is emitted for every root with a
\* children list, also an empty one
CallToActionBlock_emptyWrapper(props) ==
    LET heading == Get(props, "heading")
        subheading == Get(props, "subheading")
        richText == Get(props, "richText")
        buttons == Get(props, "buttons")
        backgroundColor == Default(Get(props, "backgroundColor"), Str("default"))
        bgClass == Or(Lookup(backgroundClasses, backgroundColor), Str(backgroundClasses.default))
        children == Get(Get(richText, "root"), "children")
    IN
    Elem("section", NoKey, "py-16 " \o ToStr(bgClass), {},
      <<Elem("div", NoKey, "container mx-auto px-4", {},
          <<Elem("div", NoKey, "mx-auto max-w-3xl text-center", {},
              <<Elem("h2", NoKey, "mb-4 text-3xl font-bold tracking-tight sm:text-4xl lg:text-5xl",
                     {}, <<Text(ToStr(heading))>>),
                IF Truthy(subheading)
                THEN Elem("p", NoKey, "mb-6 text-lg text-muted-foreground sm:text-xl", {},
                          <<Text(ToStr(subheading))>>)
                ELSE Nothing,
                IF Truthy(children)
                THEN Elem("div", NoKey, "mb-8", {}, <<RichText_CallToAction(richText)>>)
                ELSE Nothing,
                IF Truthy(buttons) /\ Len(buttons.v) > 0
                THEN Elem("div", NoKey,
                          "flex flex-col items-center justify-center gap-4 sm:flex-row", {},
                          [i \in 1..Len(buttons.v) |-> CTAButtonElem(buttons.v[i], i - 1)])
                ELSE Nothing>>)>>)>>)

CallToActionBlock(props) ==
    LET heading == Get(props, "heading")
        subheading == Get(props, "subheading")
        richText == Get(props, "richText")
        buttons == Get(props, "buttons")
        backgroundColor == Default(Get(props, "backgroundColor"), Str("default"))
        bgClass == Or(Lookup(backgroundClasses, backgroundColor), Str(backgroundClasses.default))
        children == Get(Get(richText, "root"), "children")
    IN
    Elem("section", NoKey, "py-16 " \o ToStr(bgClass), {},
      <<Elem("div", NoKey, "container mx-auto px-4", {},
          <<Elem("div", NoKey, "mx-auto max-w-3xl text-center", {},
              <<Elem("h2", NoKey, "mb-4 text-3xl font-bold tracking-tight sm:text-4xl lg:text-5xl",
                     {}, <<Text(ToStr(heading))>>),
                IF Truthy(subheading)
                THEN Elem("p", NoKey, "mb-6 text-lg text-muted-foreground sm:text-xl", {},
                          <<Text(ToStr(subheading))>>)
                ELSE Nothing,
                IF Truthy(children) /\ Len(children.v) > 0
                THEN Elem("div", NoKey, "mb-8", {}, <<RichText_CallToAction(richText)>>)
                ELSE Nothing,
                IF Truthy(buttons) /\ Len(buttons.v) > 0
                THEN Elem("div", NoKey,
                          "flex flex-col items-center justify-center gap-4 sm:flex-row", {},
                          [i \in 1..Len(buttons.v) |-> CTAButtonElem(buttons.v[i], i - 1)])
                ELSE Nothing>>)>>)>>)

---------------------------------------------------------------------------
(* Layout compositor, src/blocks/RenderBlocks.tsx                          *)

\* bug variant: the discriminant is deleted from the block itself
RestProps_inPlace(block) ==
    [props |-> Omit(block, "blockType"), block |-> Omit(block, "blockType")]

\* const { blockType: _, ...props } = block : props is a new object with the
\* other properties of block, and block is left as it was
RestProps(block) == [props |-> Omit(block, "blockType"), block |-> block]

\* block.id || `block-${index}`
BlockKey(block, index) == ToStr(Or(Get(block, "id"), Str("block-" \o ToString(index))))

\* bug variant: an unknown block leaves an empty placeholder element
renderBlock_placeholder(block, index) ==
    LET blockKey == BlockKey(block, index)
        blockType == Get(block, "blockType")
    IN
    IF blockType = Str("content")
    THEN [out |-> Component("ContentComponent", blockKey, ContentBlock(RestProps(block).props)),
          log |-> <<>>, block |-> RestProps(block).block]
    ELSE IF blockType = Str("mediaBlock")
    THEN [out |-> Component("MediaBlockComponent", blockKey,
                            MediaBlockComponent(RestProps(block).props)),
          log |-> <<>>, block |-> RestProps(block).block]
    ELSE IF blockType = Str("callToAction")
    THEN [out |-> Component("CallToActionComponent", blockKey,
                            CallToActionBlock(RestProps(block).props)),
          log |-> <<>>, block |-> RestProps(block).block]
    ELSE [out |-> Elem("div", blockKey, "unknown-block", {}, <<>>),
          log |-> IF NODE_ENV = "development"
                  THEN <<"Unknown block type: \"" \o ToStr(blockType) \o "\"">>
                  ELSE <<>>,
          block |-> block]

\* bug variant: the diagnostic is written in every build but the test build
renderBlock_warnsUnlessTest(block, index) ==
    LET blockKey == BlockKey(block, index)
        blockType == Get(block, "blockType")
    IN
    IF blockType = Str("content")
    THEN [out |-> Component("ContentComponent", blockKey, ContentBlock(RestProps(block).props)),
          log |-> <<>>, block |-> RestProps(block).block]
    ELSE IF blockType = Str("mediaBlock")
    THEN [out |-> Component("MediaBlockComponent", blockKey,
                            MediaBlockComponent(RestProps(block).props)),
          log |-> <<>>, block |-> RestProps(block).block]
    ELSE IF blockType = Str("callToAction")
    THEN [out |-> Component("CallToActionComponent", blockKey,
                            CallToActionBlock(RestProps(block).props)),
          log |-> <<>>, block |-> RestProps(block).block]
    ELSE [out |-> Nothing,
          log |-> IF NODE_ENV # "test"
                  THEN <<"Unknown block type: \"" \o ToStr(blockType) \o "\"">>
                  ELSE <<>>,
          block |-> block]

\* bug variant: a development build shows the unknown block type on the page
renderBlock_devPlaceholder(block, index) ==
    LET blockKey == BlockKey(block, index)
        blockType == Get(block, "blockType")
    IN
    IF blockType = Str("content")
    THEN [out |-> Component("ContentComponent", blockKey, ContentBlock(RestProps(block).props)),
          log |-> <<>>, block |-> RestProps(block).block]
    ELSE IF blockType = Str("mediaBlock")
    THEN [out |-> Component("MediaBlockComponent", blockKey,
                            MediaBlockComponent(RestProps(block).props)),
          log |-> <<>>, block |-> RestProps(block).block]
    ELSE IF blockType = Str("callToAction")
    THEN [out |-> Component("CallToActionComponent", blockKey,
                            CallToActionBlock(RestProps(block).props)),
          log |-> <<>>, block |-> RestProps(block).block]
    ELSE [out |-> IF NODE_ENV = "development"
                  THEN Elem("pre", blockKey, "", {}, <<Text(ToStr(blockType))>>)
                  ELSE Nothing,
          log |-> IF NODE_ENV = "development"
                  THEN <<"Unknown block type: \"" \o ToStr(blockType) \o "\"">>
                  ELSE <<>>,
          block |-> block]

\* The element renderBlock returns (out) and what it writes to the console (log).
renderBlock(block, index) ==
    LET blockKey == BlockKey(block, index)
        blockType == Get(block, "blockType")
    IN
    IF blockType = Str("content")
    THEN [out |-> Component("ContentComponent", blockKey, ContentBlock(RestProps(block).props)),
          log |-> <<>>, block |-> RestProps(block).block]
    ELSE IF blockType = Str("mediaBlock")
    THEN [out |-> Component("MediaBlockComponent", blockKey,
                            MediaBlockComponent(RestProps(block).props)),
          log |-> <<>>, block |-> RestProps(block).block]
    ELSE IF blockType = Str("callToAction")
    THEN [out |-> Component("CallToActionComponent", blockKey,
                            CallToActionBlock(RestProps(block).props)),
          log |-> <<>>, block |-> RestProps(block).block]
    ELSE [out |-> Nothing,
          log |-> IF NODE_ENV = "development"
                  THEN <<"Unknown block type: \"" \o ToStr(blockType) \o "\"">>
                  ELSE <<>>,
          block |-> block]

\* the concatenation of a sequence of sequences
RECURSIVE Concat(_)
Concat(ss) == IF ss = <<>> THEN <<>> ELSE Head(ss) \o Concat(Tail(ss))

\* bug variant: the blocks are mapped newest first
RenderBlocks_reversed(blocks) ==
    IF ~Truthy(blocks) \/ Len(blocks.v) = 0
    THEN [out |-> Nothing, log |-> <<>>, blocks |-> blocks]
    ELSE LET n == Len(blocks.v)
             each == [i \in 1..n |-> renderBlock(blocks.v[n + 1 - i], n - i)]
         IN [out |-> Elem("div", NoKey, "render-blocks", {}, [i \in 1..n |-> each[i].out]),
             log |-> Concat([i \in 1..n |-> each[i].log]),
             blocks |-> Arr([i \in 1..n |-> each[n + 1 - i].block])]

\* bug variant: the empty sequence gets a container too
RenderBlocks_emptyContainer(blocks) ==
    IF ~Truthy(blocks)
    THEN [out |-> Nothing, log |-> <<>>, blocks |-> blocks]
    ELSE LET each == [i \in 1..Len(blocks.v) |-> renderBlock(blocks.v[i], i - 1)]
         IN [out |-> Elem("div", NoKey, "render-blocks", {},
                          [i \in 1..Len(blocks.v) |-> each[i].out]),
             log |-> Concat([i \in 1..Len(blocks.v) |-> each[i].log]),
             blocks |-> Arr([i \in 1..Len(blocks.v) |-> each[i].block])]

RenderBlocks(blocks) ==
    IF ~Truthy(blocks) \/ Len(blocks.v) = 0
    THEN [out |-> Nothing, log |-> <<>>, blocks |-> blocks]
    ELSE LET each == [i \in 1..Len(blocks.v) |-> renderBlock(blocks.v[i], i - 1)]
         IN [out |-> Elem("div", NoKey, "render-blocks", {},
                          [i \in 1..Len(blocks.v) |-> each[i].out]),
             log |-> Concat([i \in 1..Len(blocks.v) |-> each[i].log]),
             blocks |-> Arr([i \in 1..Len(blocks.v) |-> each[i].block])]

---------------------------------------------------------------------------
(* Inputs *)

\* all sequences over S of length at most n
SeqsUpTo(S, n) == UNION {[1..k -> S] : k \in 0..n}

\* an object literal given by the properties that are present: the pairs
\* <<name, value>> whose value is not undefined
Literal(pairs) ==
    LET names == {pr[1] : pr \in {q \in pairs : q[2] # Undefined}}
    IN Obj([n \in names |-> (CHOOSE q \in pairs : q[1] = n)[2]])

TextNode(text, format) ==
    Obj([type |-> Str("text"), version |-> Num(1), text |-> text, format |-> format])
Plain(s) == Obj([type |-> Str("text"), version |-> Num(1), text |-> Str(s)])
Parent(type, kids) == Obj([type |-> Str(type), version |-> Num(1), children |-> Arr(kids)])
Childless(type) == Obj([type |-> Str(type), version |-> Num(1)])
Paragraph(s) == Parent("paragraph", <<Plain(s)>>)

SampleNodes ==
    {Plain("X"),
     TextNode(Str("B"), Num(3)),
     Childless("text"),
     Paragraph("P1"),
     Childless("paragraph"),
     Obj([type |-> Str("heading"), version |-> Num(1), tag |-> Str("h1"),
          children |-> Arr(<<Plain("H")>>)]),
     Obj([type |-> Str("list"), version |-> Num(1), listType |-> Str("number"),
          children |-> Arr(<<Parent("listitem", <<Plain("L")>>)>>)]),
     Parent("quote", <<Plain("Q")>>),
     Parent("link", <<Plain("A")>>),
     Childless("linebreak"),
     Parent("futureKind123", <<Plain("U1"), Plain("U2")>>),
     Childless("futureKind123")}

Root(kids) == Obj([type |-> Str("root"), version |-> Num(1), children |-> Arr(kids)])
RootWithoutChildren == Obj([type |-> Str("root"), version |-> Num(1)])

\* the rich-text field values: untouched (undefined, null), without a root,
\* with a null root, with a root that has no children property, and with a
\* root whose children list has 0..MaxKids nodes
Contents ==
    {Undefined, Null,
     Obj([version |-> Num(1)]),
     Obj([root |-> Null]),
     Obj([root |-> RootWithoutChildren])}
    \cup {Obj([root |-> Root(kids)]) : kids \in SeqsUpTo(SampleNodes, MaxKids)}

\* Nodes handed to renderNode one at a time.  Every optional field is
\* drawn absent and set; kinds, heading tags and list types are drawn inside
\* and outside the vocabulary of the renderers.

Leaves ==
    {TextNode(Str("Hello"), Num(0)),
     TextNode(Str("B"), Num(1)),
     Plain("X"),
     Childless("text"),
     Childless("linebreak")}

HeadingTags ==
    {Undefined, Str(""), Str("h1"), Str("h2"), Str("h3"), Str("h4"), Str("h5"), Str("h6"),
     Str("h7"), Str("div"), Str("constructor")}

HeadingNodes ==
    {Literal({<<"type", Str("heading")>>, <<"version", Num(1)>>, <<"tag", tag>>,
              <<"children", kids>>}) :
        tag \in HeadingTags, kids \in {Undefined, Arr(<<Plain("H")>>)}}

ListTypes == {Undefined, Str("number"), Str("bullet"), Str("ordered"), Str("check")}

ListNodes ==
    {Literal({<<"type", Str("list")>>, <<"version", Num(1)>>, <<"listType", listType>>,
              <<"children", kids>>}) :
        listType \in ListTypes,
        kids \in {Undefined, Arr(<<Parent("listitem", <<Plain("L")>>)>>)}}

\* the `fields` of a link node as the Lexical link feature serializes them
LinkFields ==
    {Undefined}
    \cup {Literal({<<"url", url>>, <<"newTab", newTab>>, <<"linkType", Str("custom")>>}) :
            url \in {Undefined, Str("https://example.com")},
            newTab \in {Undefined, Bool(FALSE), Bool(TRUE)}}

LinkNodes ==
    {Literal({<<"type", Str("link")>>, <<"version", Num(1)>>, <<"fields", fields>>,
              <<"url", url>>, <<"newTab", newTab>>, <<"children", kids>>}) :
        fields \in LinkFields, url \in {Undefined, Str("/about")},
        newTab \in {Undefined, Bool(TRUE)},
        kids \in {Undefined, Arr(<<Plain("A")>>)}}

UnknownKinds == {Undefined, Str("futureKind123"), Str("horizontalrule")}

UnknownNodes ==
    {Literal({<<"type", type>>, <<"version", Num(1)>>, <<"children", kids>>}) :
        type \in UnknownKinds,
        kids \in {Undefined, Null} \cup {Arr(sq) : sq \in SeqsUpTo(Leaves, MaxKids)}}

\* values the node type does not admit: a missing node and a children
\* property that is no list
IllTypedNodes ==
    {Null,
     Obj([type |-> Str("paragraph"), version |-> Num(1), children |-> Str("oops")]),
     Obj([type |-> Str("futureKind123"), version |-> Num(1), children |-> Str("oops")]),
     Obj([type |-> Str("linebreak"), version |-> Num(1), children |-> Str("oops")]),
     Obj([type |-> Str("futureKind123"), version |-> Num(1), children |-> Num(3)])}

Inner ==
    {Plain("X"), TextNode(Str("B"), Num(1)), Childless("text"), Childless("heading"),
     Parent("futureKind123", <<Plain("U1"), Plain("U2")>>), Childless("futureKind123"),
     Parent("paragraph", <<Null>>)}

ContainerKinds == {"paragraph", "listitem", "quote", "futureKind123"}

ContainerNodes ==
    {Literal({<<"type", Str(type)>>, <<"version", Num(1)>>, <<"children", kids>>}) :
        type \in ContainerKinds,
        kids \in {Undefined} \cup {Arr(sq) : sq \in SeqsUpTo(Inner, MaxKids)}}

DocNodes ==
    Leaves \cup HeadingNodes \cup ListNodes \cup LinkNodes \cup UnknownNodes
        \cup IllTypedNodes \cup ContainerNodes
        \cup {Parent("paragraph", <<TextNode(Str("Hello"), Num(0))>>)}

Indexes == 0..MaxIndex

\* rich-text field values with an ill-typed part
IllTypedContents ==
    {Obj([root |-> Obj([type |-> Str("root"), children |-> Str("oops")])])}
    \cup {Obj([root |-> Root(kids)]) :
            kids \in {<<Null>>, <<Plain("X"), Null>>,
                      <<Parent("paragraph", <<Null>>), Plain("X")>>}}

Texts == {Str("X"), Str("Hello")}
Formats == {Undefined} \cup {Num(m) : m \in 0..MaxMask}

\* the values of one column field: untouched, null, a root without children
\* property, a root with an empty list, and a one-paragraph root
ColumnContents(s) ==
    {Undefined, Null, Obj([root |-> RootWithoutChildren]), Obj([root |-> Root(<<>>)]),
     Obj([root |-> Root(<<Paragraph(s)>>)])}

ColumnCounts == {Undefined, Str("1"), Str("2"), Str("3"), Str("4")}

ContentProps ==
    {Literal({<<"columns", n>>, <<"columnOne", c1>>, <<"columnTwo", c2>>,
              <<"columnThree", c3>>, <<"id", Str("c")>>}) :
        n \in ColumnCounts, c1 \in ColumnContents("P1"),
        c2 \in ColumnContents("P2"), c3 \in ColumnContents("P3")}

\* a media reference: an unresolved identifier (string or number), null, or
\* a descriptor whose url, alt and filename are each absent, empty or set
MediaRefs ==
    {Str("raw-id-string"), Num(7), Null}
    \cup {Literal({<<"id", Str("media-1")>>, <<"url", u>>, <<"alt", a>>, <<"filename", f>>,
                   <<"width", d>>, <<"height", d>>}) :
            u \in {Undefined, Str(""), Str("/images/test-image.jpg")},
            a \in {Undefined, Str(""), Str("Test image alt text")},
            f \in {Undefined, Str(""), Str("test-image.jpg")},
            d \in {Undefined, Num(640)}}

Captions == {Undefined, Null, Str(""), Str("X")}

Positions ==
    {Undefined, Null, Str("left"), Str("center"), Str("right"), Str("top"),
     Str("constructor")}

MediaProps ==
    {Literal({<<"media", m>>, <<"caption", c>>, <<"position", p>>}) :
        m \in MediaRefs, c \in Captions, p \in Positions}

CTAButtons ==
    {Literal({<<"id", i>>, <<"label", Str(l)>>, <<"link", Str("/" \o l)>>, <<"variant", v>>}) :
        i \in {Undefined, Str("btn")}, l \in {"Go", "More"}, v \in {Undefined, Str("outline")}}

ButtonLists ==
    {Undefined, Null, Arr(<<>>)}
    \cup {Arr(<<b>>) : b \in CTAButtons}
    \cup {Arr(<<b1, b2>>) : b1 \in {b \in CTAButtons : Get(b, "label") = Str("Go")},
                            b2 \in {b \in CTAButtons : Get(b, "label") = Str("More")}}

BackgroundColors ==
    {Undefined, Null, Str("default"), Str("muted"), Str("primary"), Str("secondary"),
     Str("accent"), Str("neon"), Str("constructor")}

CTAProps ==
    {Literal({<<"heading", Str(h)>>, <<"subheading", sub>>, <<"richText", rt>>,
              <<"buttons", bs>>, <<"backgroundColor", bg>>}) :
        h \in {"A", "B"}, sub \in {Undefined, Null, Str("Sub")},
        rt \in ColumnContents("R"), bs \in ButtonLists, bg \in BackgroundColors}

\* adds blockType and id to the props of a block
AsBlock(props, blockType, id) ==
    Literal({<<f, props.v[f]>> : f \in DOMAIN props.v}
            \cup {<<"blockType", Str(blockType)>>, <<"id", id>>})

Promo(h) == AsBlock(Obj([heading |-> Str(h)]), "callToAction", Undefined)

SampleBlocks ==
    {Promo("A"),
     Promo("B"),
     Obj([blockType |-> Str("mystery")]),
     Obj([blockType |-> Str("unknownBlockType"), id |-> Str("unknown-1")]),
     AsBlock(Obj([columns |-> Str("1"), columnOne |-> Obj([root |-> Root(<<Paragraph("First")>>)])]),
             "content", Str("block-1")),
     AsBlock(Obj([columns |-> Str("2"), columnOne |-> Obj([root |-> Root(<<Paragraph("Second")>>)]),
                  columnTwo |-> Null]),
             "content", Str("")),
     AsBlock(Obj([media |-> Obj([url |-> Str("/images/test-image.jpg"),
                                 filename |-> Str("test-image.jpg")]),
                  caption |-> Str("Cap")]),
             "mediaBlock", Str("m1")),
     AsBlock(Obj([media |-> Str("raw-id-string"), caption |-> Str("X")]),
             "mediaBlock", Undefined)}

BlockSequences ==
    {Undefined, Null} \cup {Arr(bs) : bs \in SeqsUpTo(SampleBlocks, MaxBlocks)}

---------------------------------------------------------------------------
(* The state machine *)

\* no step-by-step execution is under way
Idle ==
    /\ inflight = <<>>
    /\ stack = <<>>
    /\ visited = <<>>

Init ==
    /\ call = [op |-> "none"]
    /\ result = Nothing
    /\ NODE_ENV \in {"development", "production", "test"}
    /\ warned = <<>>
    /\ Idle

CallRenderFormattedText ==
    /\ call.op = "none"
    /\ \E text \in Texts, format \in Formats :
        /\ call' = [op |-> "renderFormattedText", text |-> text, format |-> format]
        /\ result' = renderFormattedText(text, format)
        /\ warned' = <<>>
        /\ UNCHANGED <<NODE_ENV, stepwise>>

CallRichText ==
    /\ call.op = "none"
    /\ \E content \in Contents \cup IllTypedContents :
        /\ call' = [op |-> "RichText", content |-> content]
        /\ result' = RichText(content)
        /\ warned' = <<>>
        /\ UNCHANGED <<NODE_ENV, stepwise>>

CallRichTextShared ==
    /\ call.op = "none"
    /\ \E content \in Contents \cup IllTypedContents,
          className \in {Undefined, Str("prose-lg")} :
        /\ call' = [op |-> "RichText_Shared", content |-> content, className |-> className]
        /\ result' = RichText_Shared(content, className)
        /\ warned' = <<>>
        /\ UNCHANGED <<NODE_ENV, stepwise>>

\* renderNode(node, index) of src/blocks/Content/Component.tsx
CallRenderNode ==
    /\ call.op = "none"
    /\ \E node \in DocNodes, index \in Indexes :
        /\ call' = [op |-> "renderNode", node |-> node, index |-> index]
        /\ result' = renderNode(node, index)
        /\ warned' = <<>>
        /\ UNCHANGED <<NODE_ENV, stepwise>>

\* renderNode(node, index) of the shared RichText component
CallRenderNodeShared ==
    /\ call.op = "none"
    /\ \E node \in DocNodes, index \in Indexes :
        /\ call' = [op |-> "renderNode_Shared", node |-> node, index |-> index]
        /\ result' = renderNode_Shared(node, index)
        /\ warned' = <<>>
        /\ UNCHANGED <<NODE_ENV, stepwise>>

\* renderNode(node, index) of the call-to-action block
CallRenderNodeCallToAction ==
    /\ call.op = "none"
    /\ \E node \in DocNodes, index \in Indexes :
        /\ call' = [op |-> "renderNode_CallToAction", node |-> node, index |-> index]
        /\ result' = renderNode_CallToAction(node, index)
        /\ warned' = <<>>
        /\ UNCHANGED <<NODE_ENV, stepwise>>

CallContentBlock ==
    /\ call.op = "none"
    /\ \E props \in ContentProps :
        /\ call' = [op |-> "ContentBlock", props |-> props]
        /\ result' = ContentBlock(props)
        /\ warned' = <<>>
        /\ UNCHANGED <<NODE_ENV, stepwise>>

CallMediaBlockComponent ==
    /\ call.op = "none"
    /\ \E props \in MediaProps :
        /\ call' = [op |-> "MediaBlockComponent", props |-> props]
        /\ result' = MediaBlockComponent(props)
        /\ warned' = <<>>
        /\ UNCHANGED <<NODE_ENV, stepwise>>

CallCallToActionBlock ==
    /\ call.op = "none"
    /\ \E props \in CTAProps :
        /\ call' = [op |-> "CallToActionBlock", props |-> props]
        /\ result' = CallToActionBlock(props)
        /\ warned' = <<>>
        /\ UNCHANGED <<NODE_ENV, stepwise>>

CallRenderBlocks ==
    /\ call.op = "none"
    /\ \E blocks \in BlockSequences :
        LET r == RenderBlocks(blocks) IN
        /\ call' = [op |-> "RenderBlocks", blocks |-> blocks, after |-> r.blocks]
        /\ result' = r.out
        /\ warned' = r.log
        /\ UNCHANGED <<NODE_ENV, stepwise>>

\* the program is built and started again in another mode; process.env.NODE_ENV
\* does not change while it runs
Rebuild ==
    /\ call.op = "none"
    /\ NODE_ENV' \in {"development", "production", "test"} \ {NODE_ENV}
    /\ UNCHANGED <<call, result, warned, stepwise>>

\* the caller takes the returned tree; the renderer keeps nothing of the call
Return ==
    /\ call.op # "none"
    /\ call' = [op |-> "none"]
    /\ result' = Nothing
    /\ warned' = <<>>
    /\ UNCHANGED <<NODE_ENV, stepwise>>

Next ==
    \/ Return
    \/ Rebuild
    \/ CallRenderFormattedText
    \/ CallRichText
    \/ CallRichTextShared
    \/ CallRenderNode
    \/ CallRenderNodeShared
    \/ CallRenderNodeCallToAction
    \/ CallContentBlock
    \/ CallMediaBlockComponent
    \/ CallCallToActionBlock
    \/ CallRenderBlocks

Spec == Init /\ [][Next]_vars

---------------------------------------------------------------------------
(* RenderBlocks invocations side by side.  An invocation maps its blocks   *)
(* one at a time (RenderBlocks.tsx:77); between two blocks any other       *)
(* invocation may run.  The console and NODE_ENV are what they share.      *)

\* the longest block sequence of an interleaved invocation
MaxSteps == 2

Invocations == {1, 2}

ConcurrentBlocks ==
    {Promo("A"), Obj([blockType |-> Str("mystery")]),
     Obj([blockType |-> Str("unknownBlockType"), id |-> Str("unknown-1")])}

ConcurrentInputs ==
    {Undefined} \cup {Arr(bs) : bs \in SeqsUpTo(ConcurrentBlocks, MaxSteps)}

\* bug variant: every invocation collects its elements in one module-level array
ResultArray_shared(p) == 1

\* the array blocks.map(...) fills: a new one for each invocation
ResultArray(p) == p

NotStarted == [pc |-> "idle", blocks |-> Undefined, pos |-> 0, acc |-> <<>>, ret |-> Nothing]

InitConcurrent ==
    /\ call = [op |-> "none"]
    /\ result = Nothing
    /\ NODE_ENV \in {"development", "production", "test"}
    /\ warned = <<>>
    /\ inflight = [p \in Invocations |-> NotStarted]
    /\ stack = <<>>
    /\ visited = <<>>

\* RenderBlocks({ blocks }) is entered: null for no blocks, else map begins
Enter(p) ==
    /\ inflight[p].pc = "idle"
    /\ \E blocks \in ConcurrentInputs :
        IF ~Truthy(blocks) \/ Len(blocks.v) = 0
        THEN inflight' = [inflight EXCEPT ![p] = [@ EXCEPT !.pc = "done", !.blocks = blocks]]
        ELSE inflight' = [inflight EXCEPT ![p].pc = "map", ![p].blocks = blocks, ![p].pos = 1,
                                          ![ResultArray(p)].acc = <<>>]
    /\ UNCHANGED <<call, result, NODE_ENV, warned, stack, visited>>

\* one callback of blocks.map: renderBlock(block, index)
MapStep(p) ==
    /\ inflight[p].pc = "map"
    /\ inflight[p].pos <= Len(inflight[p].blocks.v)
    /\ LET r == renderBlock(inflight[p].blocks.v[inflight[p].pos], inflight[p].pos - 1) IN
       /\ inflight' = [inflight EXCEPT ![p].pos = @ + 1,
                                       ![ResultArray(p)].acc = Append(@, r.out)]
       /\ warned' = warned \o r.log
    /\ UNCHANGED <<call, result, NODE_ENV, stack, visited>>

\* map is through: the container with the collected elements is returned
Exit(p) ==
    /\ inflight[p].pc = "map"
    /\ inflight[p].pos > Len(inflight[p].blocks.v)
    /\ inflight' = [inflight EXCEPT
                       ![p].pc = "done",
                       ![p].ret = Elem("div", NoKey, "render-blocks", {},
                                       inflight[ResultArray(p)].acc)]
    /\ UNCHANGED <<call, result, NODE_ENV, warned, stack, visited>>

NextConcurrent == \E p \in Invocations : Enter(p) \/ MapStep(p) \/ Exit(p)

SpecConcurrent == InitConcurrent /\ [][NextConcurrent]_vars

---------------------------------------------------------------------------
(* The renderNode calls of one RichText render, one call at a time.  A     *)
(* node is named by its path: the indexes that lead to it from the root.   *)
(* A call is made on the node on top of the stack; the calls it makes on   *)
(* its children come next, before the calls on its later siblings.         *)

\* a text node with a text of its own, here with children it never reads
TextWithChildren ==
    Obj([type |-> Str("text"), version |-> Num(1), text |-> Str("T"),
         children |-> Arr(<<Plain("hidden")>>)])

WalkNodes ==
    {Plain("X"),
     Childless("futureKind123"),
     Parent("paragraph", <<Plain("X"), TextNode(Str("B"), Num(1))>>),
     Parent("linebreak", <<Plain("hidden")>>),
     TextWithChildren,
     Parent("futureKind123", <<Parent("quote", <<Plain("U1")>>), Plain("U2")>>),
     Parent("list", <<Parent("listitem", <<Parent("linebreak", <<Plain("hidden")>>),
                                            Plain("L")>>)>>)}

WalkContents ==
    {Undefined, Obj([root |-> RootWithoutChildren])}
    \cup {Obj([root |-> Root(kids)]) : kids \in SeqsUpTo(WalkNodes, MaxKids)}

\* the node at a path below a list of children
RECURSIVE NodeAt(_, _)
NodeAt(children, path) ==
    IF Len(path) = 1 THEN children.v[path[1]]
    ELSE NodeAt(Get(children.v[path[1]], "children"), Tail(path))

\* bug variant: every node with a list of children has them rendered
CallsOnChildren_always(node) ==
    LET children == Get(node, "children") IN
    IF children.js = "array" THEN Len(children.v) ELSE 0

\* how many renderNode calls the call on node makes itself: none in the
\* text arm and the linebreak arm, one per child wherever children are mapped
CallsOnChildren(node) ==
    LET type == Get(node, "type")
        children == Get(node, "children")
    IN
    IF type = Str("text") /\ Get(node, "text") # Undefined THEN 0
    ELSE IF type = Str("linebreak") THEN 0
    ELSE IF children.js = "array" THEN Len(children.v)
    ELSE 0

\* the paths of the first n children of the node at path
ChildPaths(path, n) == [i \in 1..n |-> Append(path, i)]

InitWalk ==
    /\ call = [op |-> "none"]
    /\ result = Nothing
    /\ NODE_ENV \in {"development", "production", "test"}
    /\ warned = <<>>
    /\ Idle

\* RichText({ content }): null without children, else one call per root child
StartWalk ==
    /\ call.op = "none"
    /\ \E content \in WalkContents :
        LET children == Get(Get(content, "root"), "children") IN
        /\ call' = [op |-> "walk", content |-> content]
        /\ stack' = IF Truthy(children) THEN ChildPaths(<<>>, Len(children.v)) ELSE <<>>
        /\ visited' = <<>>
    /\ UNCHANGED <<result, NODE_ENV, warned, inflight>>

\* renderNode(node, index) is invoked on the node on top of the stack
VisitNode ==
    /\ call.op = "walk"
    /\ stack # <<>>
    /\ LET path == Head(stack)
           node == NodeAt(Get(Get(call.content, "root"), "children"), path)
       IN /\ visited' = Append(visited, path)
          /\ stack' = ChildPaths(path, CallsOnChildren(node)) \o Tail(stack)
    /\ UNCHANGED <<call, result, NODE_ENV, warned, inflight>>

\* every call has returned and RichText returns
FinishWalk ==
    /\ call.op = "walk"
    /\ stack = <<>>
    /\ call' = [op |-> "walked", content |-> call.content]
    /\ UNCHANGED <<result, NODE_ENV, warned, stepwise>>

NextWalk == StartWalk \/ VisitNode \/ FinishWalk

\* a call that is due is made: the renderer is one synchronous computation
SpecWalk == InitWalk /\ [][NextWalk]_vars /\ WF_vars(VisitNode) /\ WF_vars(FinishWalk)

---------------------------------------------------------------------------
(* What the browser shows of a presentation tree: null children, empty     *)
(* strings, fragments and component boundaries leave no node of their own, *)
(* and keys are not part of the output.                                    *)

Transparent == {"#fragment", "ContentComponent", "MediaBlockComponent", "CallToActionComponent"}

RECURSIVE Dom(_)
Dom(t) ==
    IF t.el = "#null" THEN <<>>
    ELSE IF t.el = "#text" THEN (IF t.txt = "" THEN <<>> ELSE <<t>>)
    ELSE LET inner == Concat([i \in 1..Len(t.kids) |-> Dom(t.kids[i])])
         IN IF t.el \in Transparent THEN inner
            ELSE <<[t EXCEPT !.key = NoKey, !.kids = inner]>>

\* the strings of a presentation tree, in document order
RECURSIVE TextsOf(_)
TextsOf(t) ==
    IF t.el = "#text" THEN (IF t.txt = "" THEN <<>> ELSE <<t.txt>>)
    ELSE Concat([i \in 1..Len(t.kids) |-> TextsOf(t.kids[i])])

\* the elements named el of a presentation tree, in document order
RECURSIVE ElementsOf(_, _)
ElementsOf(t, el) ==
    (IF t.el = el THEN <<t>> ELSE <<>>)
    \o Concat([i \in 1..Len(t.kids) |-> ElementsOf(t.kids[i], el)])

\* the value of attribute a of element e
Attr(e, a) == (CHOOSE pr \in e.attrs : pr[1] = a)[2]

\* the tags on the path from the outermost wrapper down to the string
RECURSIVE Chain(_)
Chain(t) == IF t.el = "#text" THEN <<>> ELSE <<t.el>> \o Chain(t.kids[1])

\* the strings of a rich-text field value, in document order
RECURSIVE NodeTexts(_)
NodeTexts(node) ==
    LET children == Get(node, "children") IN
    IF Get(node, "type") = Str("text") /\ Get(node, "text") # Undefined
    THEN <<Get(node, "text").v>>
    ELSE IF Get(node, "type") = Str("linebreak") \/ children.js # "array" THEN <<>>
    ELSE Concat([i \in 1..Len(children.v) |-> NodeTexts(children.v[i])])

ContentTexts(content) ==
    LET children == Get(Get(content, "root"), "children") IN
    IF children.js # "array" THEN <<>>
    ELSE Concat([i \in 1..Len(children.v) |-> NodeTexts(children.v[i])])

Reverse(sq) == [i \in 1..Len(sq) |-> sq[Len(sq) + 1 - i]]

---------------------------------------------------------------------------
(* C1 *)

StyleNames == <<"strong", "em", "s", "u", "code">>
StyleFlags == <<IS_BOLD, IS_ITALIC, IS_STRIKETHROUGH, IS_UNDERLINE, IS_CODE>>

\* the wrappers of the flags set in mask, in the order bold, italic,
\* strikethrough, underline, code
StylesOf(mask) ==
    LET set == SelectSeq(<<1, 2, 3, 4, 5>>, LAMBDA i : (mask \div StyleFlags[i]) % 2 = 1)
    IN [k \in 1..Len(set) |-> StyleNames[set[k]]]

FormatterCalled ==
    /\ call.op = "renderFormattedText"
    /\ call.format.js = "number"
    /\ call.format.v \in 0..31

\* C1 as claimed: for every text and every mask in 0..31 the wrappers of the
\* set flags nest in the order bold, italic, strikethrough, underline, code
\* with bold outermost (mask 3: italic inside bold; mask 17: code inside
\* bold) and the raw text innermost.
C1_BoldOutermost ==
    FormatterCalled =>
        /\ Chain(result) = StylesOf(call.format.v)
        /\ TextsOf(result) = <<call.text.v>>

\* C1 as amended: for every text and every mask in 0..31 the wrappers of the
\* set flags nest in the order bold, italic, strikethrough, underline, code
\* with bold innermost and code outermost (mask 3: bold inside italic;
\* mask 17: bold inside code), the raw text innermost.
C1_BoldInnermost ==
    FormatterCalled =>
        /\ Chain(result) = Reverse(StylesOf(call.format.v))
        /\ TextsOf(result) = <<call.text.v>>

C1_Witness ==
    /\ call.op = "renderFormattedText"
    /\ call.text = Str("X")
    /\ call.format = Num(17)
    /\ Chain(result) = <<"code", "strong">>
    /\ result.kids[1].kids[1] = Text("X")

---------------------------------------------------------------------------
(* C2 *)

\* content absent or null, root absent or null, root.children absent, or
\* root.children the empty list
NoChildren(content) ==
    LET children == Get(Get(content, "root"), "children") IN
    children = Undefined \/ (children.js = "array" /\ Len(children.v) = 0)

\* C2: RichText returns null, never an empty wrapper element, when the
\* content, its root or the root's children are absent or the children list
\* is empty.
C2_AbsentIsNothing ==
    (call.op \in {"RichText", "RichText_Shared"} /\ NoChildren(call.content))
        => result = Nothing

---------------------------------------------------------------------------
(* C3 *)

NoBlocks(blocks) ==
    blocks = Undefined \/ blocks = Null \/ (blocks.js = "array" /\ Len(blocks.v) = 0)

KnownBlockTypes == {Str("content"), Str("mediaBlock"), Str("callToAction")}

\* C3: RenderBlocks returns null exactly when the block sequence is
\* undefined, null or empty; for a non-empty sequence it returns one
\* render-blocks container holding one result per block, also when every
\* block renders nothing.
C3_NullIffNoBlocks ==
    call.op = "RenderBlocks" =>
        /\ result = Nothing <=> NoBlocks(call.blocks)
        /\ ~NoBlocks(call.blocks) =>
              /\ result.el = "div"
              /\ result.cls = "render-blocks"
              /\ Len(result.kids) = Len(call.blocks.v)
              /\ Len(Dom(result)) = 1

C3_Witness ==
    /\ call.op = "RenderBlocks"
    /\ call.blocks.js = "array"
    /\ Len(call.blocks.v) = 2
    /\ \A i \in 1..2 : Get(call.blocks.v[i], "blockType") \notin KnownBlockTypes
    /\ result.el = "div"
    /\ Dom(result)[1].kids = <<>>

---------------------------------------------------------------------------
(* C4 *)

\* what one block contributes to the page: no region or one region
Region(block) == Dom(renderBlock(block, 0).out)

\* C4: the rendered regions are those of the input blocks that render to
\* something, in input order, none reordered, duplicated or dropped.
C4_InputOrder ==
    call.op = "RenderBlocks" =>
        IF NoBlocks(call.blocks) THEN Dom(result) = <<>>
        ELSE Dom(result)[1].kids
                = Concat([i \in 1..Len(call.blocks.v) |-> Region(call.blocks.v[i])])

C4_Witness ==
    /\ call.op = "RenderBlocks"
    /\ call.blocks.js = "array"
    /\ Len(call.blocks.v) = 3
    /\ Get(call.blocks.v[1], "blockType") = Str("content")
    /\ Get(call.blocks.v[2], "blockType") = Str("mystery")
    /\ Get(call.blocks.v[3], "blockType") = Str("callToAction")
    /\ Len(Dom(result)[1].kids) = 2
    /\ TextsOf(result) = <<"First", "B">>

---------------------------------------------------------------------------
(* C5 *)

\* the heading strings of the promo regions of a page, in document order
PromoHeadings(t) ==
    LET hs == ElementsOf(t, "h2") IN [i \in 1..Len(hs) |-> TextsOf(hs[i])]

MysteryScenario == Arr(<<Promo("A"), Obj([blockType |-> Str("mystery")]), Promo("B")>>)

\* C5: a block of an unknown blockType renders nothing and the blocks after
\* it are still rendered; [promo A, mystery, promo B] renders exactly two
\* promo regions, A then B.
C5_UnknownIsSkipped ==
    (call.op = "RenderBlocks" /\ ~NoBlocks(call.blocks)) =>
        /\ \A i \in 1..Len(call.blocks.v) :
              IF Get(call.blocks.v[i], "blockType") \in KnownBlockTypes
              THEN result.kids[i].el \in Transparent
              ELSE result.kids[i] = Nothing
        /\ call.blocks = MysteryScenario =>
              /\ Len(Dom(result)[1].kids) = 2
              /\ PromoHeadings(result) = << <<"A">>, <<"B">> >>

C5_Witness ==
    /\ call.op = "RenderBlocks"
    /\ call.blocks = MysteryScenario
    /\ result.kids[2] = Nothing
    /\ Len(ElementsOf(result, "section")) = 2

---------------------------------------------------------------------------
(* C6 *)

\* the grid element of a rendered Content block
GridOf(t) == t.kids[1].kids[1]

\* C6: columnOne is always rendered, columnTwo exactly when columns is 2 or
\* 3, columnThree exactly when columns is 3; content of a column the count
\* does not permit never appears in the output.
C6_ColumnArity ==
    call.op = "ContentBlock" =>
        LET columns == Get(call.props, "columns")
            two == columns \in {Str("2"), Str("3")}
            three == columns = Str("3")
        IN /\ GridOf(result).kids[1] # Nothing
           /\ GridOf(result).kids[2] # Nothing <=> two
           /\ GridOf(result).kids[3] # Nothing <=> three
           /\ TextsOf(result)
                = ContentTexts(Get(call.props, "columnOne"))
                  \o (IF two THEN ContentTexts(Get(call.props, "columnTwo")) ELSE <<>>)
                  \o (IF three THEN ContentTexts(Get(call.props, "columnThree")) ELSE <<>>)

C6_Witness ==
    /\ call.op = "ContentBlock"
    /\ Get(call.props, "columns") = Str("2")
    /\ ContentTexts(Get(call.props, "columnThree")) = <<"P3">>
    /\ TextsOf(result) = <<"P1", "P2">>

---------------------------------------------------------------------------
(* C7 *)

ColumnFields == <<"columnOne", "columnTwo", "columnThree">>

\* the column count a columns value names
CountOf(columns) == CASE columns = Str("1") -> 1 [] columns = Str("2") -> 2 [] columns = Str("3") -> 3

\* C7: the number of column slots equals the column count (1, 2 or 3)
\* whatever the columns hold: a null, absent or childless column still has
\* its slot, and the slots are in the order columnOne, columnTwo, columnThree.
C7_SlotsByCountAlone ==
    (call.op = "ContentBlock" /\ Get(call.props, "columns") \in {Str("1"), Str("2"), Str("3")}) =>
        LET slots == Dom(GridOf(result))[1].kids
            n == CountOf(Get(call.props, "columns"))
        IN /\ Len(slots) = n
           /\ \A k \in 1..n :
                 /\ slots[k].el = "div"
                 /\ slots[k].cls = "content-column"
                 /\ TextsOf(slots[k]) = ContentTexts(Get(call.props, ColumnFields[k]))

C7_Witness ==
    /\ call.op = "ContentBlock"
    /\ Get(call.props, "columns") = Str("3")
    /\ Get(call.props, "columnOne") = Undefined
    /\ Get(call.props, "columnTwo") = Null
    /\ ContentTexts(Get(call.props, "columnThree")) = <<"P3">>
    /\ Len(Dom(GridOf(result))[1].kids) = 3
    /\ Dom(GridOf(result))[1].kids[2].kids = <<>>

---------------------------------------------------------------------------
(* C8 *)

\* the media reference is a descriptor that has a URL
Resolved(media) ==
    /\ media.js = "object"
    /\ "url" \in DOMAIN media.v
    /\ media.v.url.js = "string"
    /\ media.v.url.v # ""

\* C8: MediaBlockComponent renders nothing (no image, no caption) when the
\* media reference is an unresolved identifier or a descriptor without a
\* URL, and renders the image only for a descriptor with a URL.
C8_UnresolvedIsNothing ==
    call.op = "MediaBlockComponent" =>
        LET media == Get(call.props, "media") IN
        IF Resolved(media)
        THEN /\ Len(ElementsOf(result, "Image")) = 1
             /\ Attr(ElementsOf(result, "Image")[1], "src") = media.v.url.v
        ELSE /\ result = Nothing
             /\ ElementsOf(result, "Image") = <<>>
             /\ ElementsOf(result, "figcaption") = <<>>

C8_Witness ==
    /\ call.op = "MediaBlockComponent"
    /\ Get(call.props, "media") = Str("raw-id-string")
    /\ Get(call.props, "caption") = Str("X")
    /\ result = Nothing

---------------------------------------------------------------------------
(* C9 *)

\* a string property that is there and not empty
Present(o, f) == f \in DOMAIN o.v /\ o.v[f].js = "string" /\ o.v[f].v # ""

\* C9: the alt text of a rendered media descriptor is its alt if present,
\* else its filename if present, else "Image"; it is never empty or undefined.
C9_AltFallback ==
    (call.op = "MediaBlockComponent" /\ result # Nothing) =>
        LET media == Get(call.props, "media")
            alt == Attr(ElementsOf(result, "Image")[1], "alt")
        IN /\ alt = IF Present(media, "alt") THEN media.v.alt.v
                    ELSE IF Present(media, "filename") THEN media.v.filename.v
                    ELSE "Image"
           /\ alt \notin {"", "undefined", "null"}

C9_Witness ==
    /\ call.op = "MediaBlockComponent"
    /\ result # Nothing
    /\ ~Present(Get(call.props, "media"), "alt")
    /\ Present(Get(call.props, "media"), "filename")
    /\ Attr(ElementsOf(result, "Image")[1], "alt") = "test-image.jpg"

---------------------------------------------------------------------------
(* C10 *)

\* C10: the media container and the caption are aligned by the same
\* position value: left gives start, center gives centered, right gives end,
\* and an absent or unrecognized position gives center for both.
C10_AlignmentByPosition ==
    (call.op = "MediaBlockComponent" /\ result # Nothing) =>
        LET position == Get(call.props, "position")
            side == IF position \in {Str("left"), Str("center"), Str("right")}
                    THEN position.v ELSE "center"
            figure == ElementsOf(result, "figure")[1]
            captions == ElementsOf(result, "figcaption")
        IN /\ figure.cls = "max-w-4xl " \o alignmentClasses[side]
           /\ \A i \in 1..Len(captions) :
                 captions[i].cls
                    = "mt-3 text-sm text-muted-foreground " \o textAlignClasses[side]

---------------------------------------------------------------------------
(* C11 *)

\* the elements named el with class cls of a presentation tree
WithClass(t, el, cls) == SelectSeq(ElementsOf(t, el), LAMBDA e : e.cls = cls)

\* the root of the rich-text field has at least one child
HasChild(content) ==
    LET children == Get(Get(content, "root"), "children") IN
    children.js = "array" /\ Len(children.v) > 0

\* C11: a callToAction block emits the rich-text wrapper exactly when the
\* root of its rich text has at least one child; for a null, absent or
\* childless root neither the wrapper nor an empty container is emitted.
C11_RichTextWrapper ==
    call.op = "CallToActionBlock" =>
        LET n == IF HasChild(Get(call.props, "richText")) THEN 1 ELSE 0 IN
        /\ Len(WithClass(result, "div", "mb-8")) = n
        /\ Len(WithClass(result, "div", "prose")) = n
        /\ TextsOf(result.kids[1].kids[1].kids[3]) = ContentTexts(Get(call.props, "richText"))

C11_Witness ==
    /\ call.op = "CallToActionBlock"
    /\ Get(call.props, "richText") = Obj([root |-> Root(<<>>)])
    /\ result.kids[1].kids[1].kids[3] = Nothing
    /\ WithClass(result, "div", "prose") = <<>>

---------------------------------------------------------------------------
(* C12 *)

ActionSectionClass == "flex flex-col items-center justify-center gap-4 sm:flex-row"

\* C12: the interactive elements of a callToAction block correspond one to
\* one to its buttons, in input order: element i carries the label and the
\* link of button i and is keyed by the button's id if present, else by its
\* index; an absent or empty list emits no action section.
C12_ButtonsInOrder ==
    call.op = "CallToActionBlock" =>
        LET buttons == Get(call.props, "buttons")
            list == IF buttons.js = "array" THEN buttons.v ELSE <<>>
            rendered == ElementsOf(result, "Button")
        IN /\ Len(rendered) = Len(list)
           /\ Len(WithClass(result, "div", ActionSectionClass)) = (IF Len(list) > 0 THEN 1 ELSE 0)
           /\ Len(list) > 0 => WithClass(result, "div", ActionSectionClass)[1].kids = rendered
           /\ \A i \in 1..Len(list) :
                 /\ TextsOf(rendered[i]) = <<list[i].v.label.v>>
                 /\ Attr(rendered[i].kids[1], "href") = list[i].v.link.v
                 /\ rendered[i].key = IF Present(list[i], "id") THEN list[i].v.id.v
                                      ELSE ToString(i - 1)

C12_Witness ==
    /\ call.op = "CallToActionBlock"
    /\ Get(call.props, "buttons").js = "array"
    /\ Len(Get(call.props, "buttons").v) = 2
    /\ ElementsOf(result, "Button")[1].key = "btn"
    /\ ElementsOf(result, "Button")[2].key = "1"
    /\ TextsOf(WithClass(result, "div", ActionSectionClass)[1]) = <<"Go", "More">>

---------------------------------------------------------------------------
(* C13 *)

BackgroundStyles ==
    {Str("default"), Str("muted"), Str("primary"), Str("secondary"), Str("accent")}

\* the props with backgroundColor set to bg
WithBackground(props, bg) ==
    Obj([f \in DOMAIN props.v \cup {"backgroundColor"} |->
            IF f = "backgroundColor" THEN bg ELSE props.v[f]])

\* C13: distinct values among default, muted, primary, secondary, accent
\* give distinct visual treatments, and an absent or unrecognized
\* backgroundColor gives the treatment of default.
C13_BackgroundOneToOne ==
    call.op = "CallToActionBlock" =>
        LET bg == Get(call.props, "backgroundColor") IN
        IF bg \in BackgroundStyles
        THEN \A other \in BackgroundStyles \ {bg} :
                result.cls # CallToActionBlock(WithBackground(call.props, other)).cls
        ELSE result.cls = CallToActionBlock(WithBackground(call.props, Str("default"))).cls

---------------------------------------------------------------------------
(* C14 *)

RenderNodeOps == {"renderNode", "renderNode_Shared", "renderNode_CallToAction"}

\* renderNode was called on a node of the given kind and returned
Rendered(kind) ==
    /\ call.op \in RenderNodeOps
    /\ Get(call.node, "type") = Str(kind)
    /\ result # Raised

HeadingLevels == {"h1", "h2", "h3", "h4", "h5", "h6"}

\* C14: a heading node is emitted at the level named by its tag when the
\* tag is one of h1..h6 and at level 2 when the tag is absent or any other
\* value; the emitted element is always one of the six heading levels.
C14_HeadingLevel ==
    Rendered("heading") =>
        LET tag == Get(call.node, "tag") IN
        /\ result.el \in HeadingLevels
        /\ result.el = IF tag.js = "string" /\ tag.v \in HeadingLevels THEN tag.v ELSE "h2"

---------------------------------------------------------------------------
(* C15 *)

\* the link target and the new-window flag of a link node
LinkTarget(node) == Or(Get(Get(node, "fields"), "url"), Get(node, "url"))
OpensNewWindow(node) == Truthy(Or(Get(Get(node, "fields"), "newTab"), Get(node, "newTab")))

HasAttr(e, a) == \E pr \in e.attrs : pr[1] = a

\* C15: a link node is emitted as an anchor whose target is the link target
\* of the node, or # when it has none; the anchor carries target exactly
\* when it carries rel, and both exactly when the node opens a new window.
C15_LinkTargetAndRel ==
    (call.op \in {"renderNode", "renderNode_Shared"} /\ Rendered("link")) =>
        /\ result.el = "a"
        /\ Attr(result, "href") = ToStr(Or(LinkTarget(call.node), Str("#")))
        /\ HasAttr(result, "target") <=> HasAttr(result, "rel")
        /\ HasAttr(result, "target") <=> OpensNewWindow(call.node)

---------------------------------------------------------------------------
(* C16 *)

\* C16 as stated: a list node is emitted as a numbered list exactly when
\* its list kind is "ordered", and as a bulleted list for every other value
\* and for an absent one.
C16_NumberedIffOrdered ==
    Rendered("list") =>
        result.el = IF Get(call.node, "listType") = Str("ordered") THEN "ol" ELSE "ul"

\* C16, amended: a list node is emitted as a numbered list exactly when its
\* listType is 'number', and as a bulleted list for every other value and
\* for an absent one.
C16_NumberedIffNumber ==
    Rendered("list") =>
        result.el = IF Get(call.node, "listType") = Str("number") THEN "ol" ELSE "ul"

C16_Witness ==
    /\ Rendered("list")
    /\ Get(call.node, "listType") = Str("ordered")
    /\ result.el = "ul"
    /\ TextsOf(result) = <<"L">>

---------------------------------------------------------------------------
(* C17 *)

\* the kinds each renderNode has an arm for
KnownKinds(op) ==
    IF op = "renderNode_CallToAction"
    THEN {"text", "paragraph", "heading", "list", "listitem", "linebreak"}
    ELSE {"text", "paragraph", "heading", "list", "listitem", "quote", "link", "linebreak"}

\* a node as the node type admits it: an object whose children, if it has
\* any, are a list of such nodes (every other field may be absent)
RECURSIVE WellTyped(_)
WellTyped(node) ==
    /\ node.js = "object"
    /\ LET children == Get(node, "children") IN
       \/ children = Undefined
       \/ /\ children.js = "array"
          /\ \A i \in 1..Len(children.v) : WellTyped(children.v[i])

\* C17: a node of an unknown kind with at least one child renders its
\* children in place, in order, inside no element, and a node of an unknown
\* kind without children renders nothing; none of its descendant text is
\* lost.
C17_UnknownPassesThrough ==
    (/\ call.op \in RenderNodeOps
     /\ WellTyped(call.node)
     /\ ToStr(Get(call.node, "type")) \notin KnownKinds(call.op)) =>
        LET children == Get(call.node, "children") IN
        IF children.js = "array" /\ Len(children.v) > 0
        THEN /\ result.el \in Transparent
             /\ Len(result.kids) = Len(children.v)
             /\ \A i \in 1..Len(children.v) : TextsOf(result.kids[i]) = NodeTexts(children.v[i])
             /\ TextsOf(result) = NodeTexts(call.node)
        ELSE result = Nothing

C17_Witness ==
    /\ call.op = "renderNode"
    /\ Get(call.node, "type") = Str("futureKind123")
    /\ NodeTexts(call.node) = <<"X", "B">>
    /\ result.el = "#fragment"
    /\ TextsOf(result) = <<"X", "B">>

---------------------------------------------------------------------------
(* C18 *)

WellTypedContent(content) ==
    LET root == Get(content, "root")
        children == Get(root, "children")
    IN \/ children \in {Undefined, Null}
       \/ /\ children.js = "array"
          /\ \A i \in 1..Len(children.v) : WellTyped(children.v[i])

\* C18: renderNode and RichText return a tree, and never raise, for every
\* tree whose nodes lack any of children, text, format, tag, listType, url
\* or carry an unknown kind; a node that lacks what its kind needs
\* contributes no text, and the text of every other node is rendered, in
\* order.
C18_NeverRaises ==
    /\ (call.op \in RenderNodeOps /\ WellTyped(call.node)) =>
          /\ result # Raised
          /\ ElementsOf(result, "#throw") = <<>>
          /\ TextsOf(result) = NodeTexts(call.node)
    /\ (call.op \in {"RichText", "RichText_Shared"} /\ WellTypedContent(call.content)) =>
          /\ result # Raised
          /\ ElementsOf(result, "#throw") = <<>>
          /\ TextsOf(result) = ContentTexts(call.content)

C18_Witness ==
    /\ call.op = "renderNode"
    /\ call.node = Parent("paragraph", <<Childless("text"), Plain("X")>>)
    /\ result.el = "p"
    /\ result.kids[1] = Nothing
    /\ TextsOf(result) = <<"X">>

---------------------------------------------------------------------------
(* C20 *)

HelloParagraph == Parent("paragraph", <<TextNode(Str("Hello"), Num(0))>>)

\* C20: the text formatter returns the text itself, inside no wrapper, when
\* the mask is undefined or 0; the paragraph holding the one text node
\* {text: 'Hello', format: 0} renders as one paragraph element that holds
\* the string Hello and nothing else.
C20_NoMaskIsIdentity ==
    /\ (call.op = "renderFormattedText" /\ call.format \in {Undefined, Num(0)}) =>
          result = Text(call.text.v)
    /\ (call.op \in RenderNodeOps /\ call.node = HelloParagraph) =>
          /\ result.el = "p"
          /\ Dom(result) = <<[result EXCEPT !.key = NoKey, !.kids = <<Text("Hello")>>]>>

C20_Witness ==
    /\ call.op = "renderNode"
    /\ call.node = HelloParagraph
    /\ ElementsOf(result, "p") = <<result>>
    /\ TextsOf(result) = <<"Hello">>

---------------------------------------------------------------------------
(* C22 *)

\* bit k of m, counted from bit 0
Bit(m, k) == (m \div (2 ^ k)) % 2

\* the number of set bits among bits 0..4 of m
LowBits(m) == Bit(m, 0) + Bit(m, 1) + Bit(m, 2) + Bit(m, 3) + Bit(m, 4)

\* C22: for every mask m >= 0 the text formatter returns for m the tree it
\* returns for m mod 32; the bits above bit 4 add no wrapper and raise
\* nothing, and the wrappers around the text are as many as the set bits
\* among bits 0..4.
C22_HighBitsIgnored ==
    (call.op = "renderFormattedText" /\ call.format.js = "number") =>
        /\ result # Raised
        /\ result = renderFormattedText(call.text, Num(call.format.v % 32))
        /\ Len(Chain(result)) = LowBits(call.format.v)
        /\ TextsOf(result) = <<call.text.v>>

C22_Witness ==
    /\ call.op = "renderFormattedText"
    /\ call.format = Num(33)
    /\ Chain(result) = <<"strong">>

---------------------------------------------------------------------------
(* C23 *)

\* the renderNode an invocation names
RenderBy(op, node, index) ==
    CASE op = "renderNode" -> renderNode(node, index)
      [] op = "renderNode_Shared" -> renderNode_Shared(node, index)
      [] op = "renderNode_CallToAction" -> renderNode_CallToAction(node, index)

\* the node is of a kind that wraps or passes through its children
HandsOnChildren(node) ==
    /\ ~(Get(node, "type") = Str("text") /\ Get(node, "text") # Undefined)
    /\ Get(node, "type") # Str("linebreak")

ChildrenOf(node) ==
    IF Get(node, "children").js = "array" THEN Get(node, "children").v ELSE <<>>

\* C23: for every kind that wraps or passes through children, child i of
\* the rendered element is the rendering of input child i at index i; a
\* child that renders nothing takes its place as nothing and leaves the
\* renderings of its siblings present and in input order.
C23_ChildrenInOrder ==
    (call.op \in RenderNodeOps /\ WellTyped(call.node) /\ HandsOnChildren(call.node)) =>
        LET kids == ChildrenOf(call.node) IN
        IF result = Nothing THEN kids = <<>>
        ELSE /\ result # Raised
             /\ Len(result.kids) = Len(kids)
             /\ \A i \in 1..Len(kids) :
                   /\ result.kids[i] = RenderBy(call.op, kids[i], i - 1)
                   /\ TextsOf(result.kids[i]) = NodeTexts(kids[i])

C23_Witness ==
    /\ call.op = "renderNode"
    /\ call.node = Parent("listitem", <<Childless("futureKind123"), TextNode(Str("B"), Num(1))>>)
    /\ result.el = "li"
    /\ result.kids[1] = Nothing
    /\ TextsOf(result.kids[2]) = <<"B">>

---------------------------------------------------------------------------
(* C24 *)

\* the elements among the rendered siblings that carry a key
Keyed(kids) == SelectSeq(kids, LAMBDA k : k # Nothing)

PairwiseDistinctKeys(kids) ==
    \A i, j \in 1..Len(kids) : i # j => kids[i].key # kids[j].key

\* C24: every element renderNode emits is keyed by the kind of its node and
\* the index of the node among its siblings, and the keys of the rendered
\* children of one parent are pairwise distinct.
C24_KeysByKindAndIndex ==
    /\ (call.op \in RenderNodeOps /\ result \notin {Nothing, Raised}) =>
          /\ result.key = ToStr(Get(call.node, "type")) \o "-" \o ToString(call.index)
          /\ PairwiseDistinctKeys(Keyed(result.kids))
          /\ HandsOnChildren(call.node) =>
                \A i \in 1..Len(result.kids) :
                    result.kids[i] # Nothing =>
                        result.kids[i].key = ToStr(Get(ChildrenOf(call.node)[i], "type"))
                                                 \o "-" \o ToString(i - 1)
    /\ (call.op \in {"RichText", "RichText_Shared"} /\ result \notin {Nothing, Raised}) =>
          PairwiseDistinctKeys(Keyed(result.kids))

C24_Witness ==
    /\ call.op = "renderNode"
    /\ call.index = 1
    /\ call.node = Parent("paragraph", <<Plain("X"), Plain("X")>>)
    /\ result.key = "paragraph-1"
    /\ result.kids[1].key = "text-0"
    /\ result.kids[2].key = "text-1"

---------------------------------------------------------------------------
(* C25 *)

\* the blocks of the sequence whose blockType no case of renderBlock names
UnknownBlocks(blocks) ==
    IF blocks.js # "array" THEN <<>>
    ELSE SelectSeq(blocks.v, LAMBDA b : Get(b, "blockType") \notin KnownBlockTypes)

\* C25: the diagnostic for an unknown blockType is written in builds other
\* than production only; a production build writes none, and in no build is
\* the diagnostic raised or placed in the returned tree.
C25_DiagnosticOutsideProduction ==
    call.op = "RenderBlocks" =>
        /\ NODE_ENV = "production" => warned = <<>>
        /\ Len(warned) \in {0, Len(UnknownBlocks(call.blocks))}
        /\ NODE_ENV = "development" => Len(warned) = Len(UnknownBlocks(call.blocks))
        /\ result # Raised
        /\ ElementsOf(result, "#throw") = <<>>
        /\ \A i \in 1..Len(warned) : \A j \in 1..Len(TextsOf(result)) :
              TextsOf(result)[j] # warned[i]
        /\ \A i \in 1..Len(UnknownBlocks(call.blocks)) :
              \A j \in 1..Len(TextsOf(result)) :
                  TextsOf(result)[j] # ToStr(Get(UnknownBlocks(call.blocks)[i], "blockType"))

C25_Witness ==
    /\ call.op = "RenderBlocks"
    /\ NODE_ENV = "production"
    /\ Len(UnknownBlocks(call.blocks)) = 2
    /\ warned = <<>>
    /\ result.el = "div"

---------------------------------------------------------------------------
(* C28 *)

\* the keys RenderBlocks puts on the blocks of the sequence
BlockKeys(blocks) == [i \in 1..Len(blocks.v) |-> BlockKey(blocks.v[i], i - 1)]

\* C28: within one RenderBlocks call the keys of the blocks are pairwise
\* distinct, whatever the ids of the blocks are (absent, empty, any string).
C28_BlockKeysDistinct ==
    (call.op = "RenderBlocks" /\ ~NoBlocks(call.blocks)) =>
        \A i, j \in 1..Len(call.blocks.v) :
            (i # j /\ result.kids[i] # Nothing /\ result.kids[j] # Nothing) =>
                result.kids[i].key # result.kids[j].key

---------------------------------------------------------------------------
(* C29 *)

\* the block sequences over one known and the two unknown blocks, the only
\* ones that read NODE_ENV
ModeSequences ==
    {Arr(bs) : bs \in SeqsUpTo({Promo("A"), Obj([blockType |-> Str("mystery")]),
                                Obj([blockType |-> Str("unknownBlockType"),
                                     id |-> Str("unknown-1")])}, MaxBlocks)}

\* C29: what renderBlock and RenderBlocks return is the same in every build
\* mode; a change of NODE_ENV changes at most the diagnostic written for
\* unknown blocks.
C29_BuildIndependent ==
    [][NODE_ENV' # NODE_ENV =>
          /\ \A blocks \in ModeSequences :
                /\ RenderBlocks(blocks).out' = RenderBlocks(blocks).out
                /\ RenderBlocks(blocks).log' # RenderBlocks(blocks).log =>
                      UnknownBlocks(blocks) # <<>>
          /\ \A block \in SampleBlocks, index \in 0..MaxBlocks :
                renderBlock(block, index).out' = renderBlock(block, index).out]_vars

C29_Witness ==
    /\ call.op = "RenderBlocks"
    /\ NODE_ENV = "development"
    /\ warned = <<"Unknown block type: \"mystery\"">>
    /\ result = Elem("div", NoKey, "render-blocks", {}, <<Nothing>>)

---------------------------------------------------------------------------
(* C26 *)

---------------------------------------------------------------------------
(* C27 *)

\* an element without its key and class: its kind, its link target, its
\* text and its children
RECURSIVE Shape(_)
Shape(t) ==
    [el |-> t.el,
     href |-> IF HasAttr(t, "href") THEN Attr(t, "href") ELSE "",
     txt |-> t.txt,
     kids |-> [i \in 1..Len(t.kids) |-> Shape(t.kids[i])]]

ShapeOf(t) == LET d == Dom(t) IN [i \in 1..Len(d) |-> Shape(d[i])]

\* C27: the three renderNode functions emit, for every document tree, the
\* same element kinds in the same nesting and order with the same link
\* targets.
C27_RenderersEquivalent ==
    (call.op \in RenderNodeOps /\ WellTyped(call.node)) =>
        /\ ShapeOf(result) = ShapeOf(renderNode(call.node, call.index))
        /\ ShapeOf(result) = ShapeOf(renderNode_Shared(call.node, call.index))
        /\ ShapeOf(result) = ShapeOf(renderNode_CallToAction(call.node, call.index))

---------------------------------------------------------------------------
(* C21 *)

\* C21: under every interleaving of RenderBlocks invocations, each returns
\* what it returns when it runs alone; the one thing an invocation writes
\* outside itself is the console, in builds that warn.
C21_IsolatedInvocations ==
    \A p \in DOMAIN inflight :
        /\ inflight[p].pc = "done" => inflight[p].ret = RenderBlocks(inflight[p].blocks).out
        /\ inflight[p].pc = "map" =>
              /\ Len(inflight[p].acc) = inflight[p].pos - 1
              /\ \A i \in 1..Len(inflight[p].acc) :
                    inflight[p].acc[i] = renderBlock(inflight[p].blocks.v[i], i - 1).out

C21_Witness ==
    /\ DOMAIN inflight = Invocations
    /\ NODE_ENV = "development"
    /\ inflight[1].pc = "done"
    /\ inflight[2].pc = "done"
    /\ Len(inflight[1].ret.kids) = 2
    /\ Len(inflight[2].ret.kids) = 1
    /\ warned = <<"Unknown block type: \"mystery\"", "Unknown block type: \"unknownBlockType\"",
                 "Unknown block type: \"mystery\"">>

---------------------------------------------------------------------------
(* C30 *)

\* the paths of the nodes below a list of children that are reachable
\* through children of nodes that render their children
RECURSIVE Reachable(_, _)
Reachable(children, prefix) ==
    IF children.js # "array" THEN {}
    ELSE UNION {{Append(prefix, i)}
                  \cup (IF HandsOnChildren(children.v[i])
                        THEN Reachable(Get(children.v[i], "children"), Append(prefix, i))
                        ELSE {})
                : i \in 1..Len(children.v)}

RootChildren == Get(Get(call.content, "root"), "children")

\* a proper prefix of the path names a linebreak or a text node with text
BelowLeaf(path) ==
    \E n \in 1..(Len(path) - 1) : ~HandsOnChildren(NodeAt(RootChildren, SubSeq(path, 1, n)))

\* the texts of the visited text nodes, in call order
VisitedTexts ==
    LET nodes == [i \in 1..Len(visited) |-> NodeAt(RootChildren, visited[i])]
        texts == SelectSeq(nodes, LAMBDA n : ~HandsOnChildren(n) /\ Get(n, "text") # Undefined)
    IN [i \in 1..Len(texts) |-> Get(texts[i], "text").v]

\* no node is visited twice, none below a linebreak node or a text node
\* with text, and at the end every reachable node has been visited
ExactlyOnce ==
    call.op \in {"walk", "walked"} =>
        /\ \A i, j \in 1..Len(visited) : i # j => visited[i] # visited[j]
        /\ \A i \in 1..Len(visited) :
              /\ visited[i] \in Reachable(RootChildren, <<>>)
              /\ ~BelowLeaf(visited[i])
        /\ call.op = "walked" =>
              /\ {visited[i] : i \in 1..Len(visited)} = Reachable(RootChildren, <<>>)
              /\ VisitedTexts = TextsOf(RichText(call.content))

\* C30: rendering a finite document ends, and by then renderNode has been
\* invoked exactly once on every node reachable through children of nodes
\* that render their children, and on no child of a linebreak node or of a
\* text node that has text.
C30_TerminatesVisitingOnce ==
    /\ []ExactlyOnce
    /\ (call.op = "walk") ~> (call.op = "walked" /\ stack = <<>>)

C30_Witness ==
    /\ call.op = "walked"
    /\ Get(call.content, "root") = Root(<<Parent("linebreak", <<Plain("hidden")>>),
                                         Parent("paragraph", <<Plain("X"), TextNode(Str("B"), Num(1))>>)>>)
    /\ visited = << <<1>>, <<2>>, <<2, 1>>, <<2, 2>> >>

====
